---- MODULE Spec2Model ----
(***************************************************************************)
(* Credential and token-lifecycle subsystem of OpenClipREDUX:              *)
(*   backend/auth/auth_handler.py   AuthHandler, rate_limit                *)
(*   backend/auth/auth_routes.py    login, refresh                         *)
(*   backend/services/security.py   SecurityService lockout tracking       *)
(* Time is counted in seconds.  Random token strings                       *)
(* (secrets.token_urlsafe) are modelled as fresh integers.                 *)
(***************************************************************************)
EXTENDS Integers, Sequences, FiniteSets, TLC

VARIABLES
    now,             \* the wall clock, datetime.now(...)
    users,           \* the users table: id -> row
    refresh_tokens,  \* the refresh_tokens table: a sequence of rows, row i holds token i
    redis_rate,      \* Redis keys "rate_limit:<func>:<ip>": key -> [value, expires_at]
    redis_blacklist, \* Redis keys "blacklist:<jti>": jti -> expires_at
    pc,              \* position of each refresh request inside refresh_access_token
    req,             \* locals of each refresh request
    rotated,         \* history: refresh tokens for which a refresh call has returned a pair
    overlap,         \* history: requests whose call overlapped another call on the same token
    response,        \* the response of the last login request
    login_history,   \* history: per email, the failed login attempts seen by the login route
    issued,          \* the access tokens handed out so far (by jti)
    revoke_called,   \* history: jtis of the access tokens revoke_token was called on
    decoded,         \* the outcome of the last decode_token call
    failed_attempts, \* SecurityService.failed_attempts: identifier -> record
    lockout_result,  \* the return value of the last SecurityService lockout call
    streak,          \* history: track_failed_attempt calls per identifier since it last had no record
    cleared,         \* history: what the last lockout call, when it was a clear, found before it ran
    rl,              \* position and locals of each request inside rate_limit.wrapper
    rate_window,     \* history: the requests admitted since the rate-limit counter was created
    verify_result,   \* the response of the last verify-email request
    attempt,         \* history: input of the last login request and what the users table held
    ended,           \* history: refresh tokens that existed when a logout or reset-password of their user completed
    admin_result,    \* the response of the last request to an admin endpoint
    cipher,          \* the last call of an encrypt/decrypt function: its input, what was stored, its output
    hashed,          \* the last hash_password call and the last verify_password call against its result
    rate_limit_storage, \* SecurityManager.rate_limit_storage: identifier -> [requests, blocked_until]
    check_history,   \* history: per identifier the times of the calls that returned True and the time of the last call that found the limit reached; the last call
    api_keys,        \* SecurityManager.api_keys: api key -> key info
    key_history,     \* history: keys revoked, successful verifications per key, the last api-key call
    sessions,        \* SecurityService.sessions: session id -> session data
    session_history  \* history: sessions created and ended, the last session call

vars == <<now, users, refresh_tokens, redis_rate, redis_blacklist, pc, req, rotated, overlap,
          response, login_history, issued, revoke_called, decoded, failed_attempts,
          lockout_result, streak, cleared, rl, rate_window, verify_result, attempt,
          ended, admin_result, cipher, hashed, rate_limit_storage, check_history,
          api_keys, key_history, sessions, session_history>>

None == "None"
NoTime == 0 - 1      \* a NULL timestamp column
NoToken == 0         \* a token string that names no row / no token in a response
NoJti == 0           \* no jti (Python None)

(***************************************************************************)
(* Configuration (backend/config.py)                                       *)
(***************************************************************************)
ACCESS_TOKEN_EXPIRE_MINUTES == 30
REFRESH_TOKEN_EXPIRE_DAYS == 30
SecondsPerMinute == 60
SecondsPerDay == 86400

(***************************************************************************)
(* Bounds of the model                                                     *)
(***************************************************************************)
MaxLogins == 1        \* rows a login may insert while refresh requests are modelled
MaxTokens == 3        \* refresh-token rows ever inserted
MaxRefreshTime == 2592000   \* clock horizon of the refresh model (30 days)

Procs == {"p1", "p2"}          \* concurrent refresh requests
UserIds == {"u1", "u2"}
Emails == {"a@x", "b@x", "z@x"}      \* z@x is not registered
Passwords == {"pw1", "pw2"}
ClientIp == "ip1"

(***************************************************************************)
(* Users table.  register() stores is_active = False until the e-mail is   *)
(* verified; u1 is a verified user, u2 a registered, unverified one.       *)
(***************************************************************************)
InitUsers ==
    [u \in UserIds |->
        IF u = "u1"
        THEN [email |-> "a@x", hashed_password |-> "pw1", is_active |-> TRUE, roles |-> {"user"},
              last_login |-> NoTime]
        ELSE [email |-> "b@x", hashed_password |-> "pw2", is_active |-> FALSE, roles |-> {"user"},
              last_login |-> NoTime]]

\* UserRepository.get_user_by_email
get_user_by_email(e) ==
    IF \E u \in UserIds : users[u].email = e
    THEN CHOOSE u \in UserIds : users[u].email = e
    ELSE None

\* AuthHandler.verify_password: bcrypt verification succeeds exactly for the
\* password the hash was made from
verify_password(plain_password, hashed_password) == plain_password = hashed_password

(***************************************************************************)
(* Redis: a key written with a TTL is visible until the TTL has elapsed.   *)
(***************************************************************************)
\* redis_client.get(key) for a rate-limit key
redis_get(key) ==
    IF key \in DOMAIN redis_rate /\ now < redis_rate[key].expires_at
    THEN redis_rate[key].value
    ELSE 0

\* pipe.incr(key); pipe.expire(key, window_seconds); pipe.execute()
redis_incr_expire(key, window_seconds) ==
    [k \in DOMAIN redis_rate \cup {key} |->
        IF k = key
        THEN [value |-> redis_get(key) + 1, expires_at |-> now + window_seconds]
        ELSE redis_rate[k]]

\* redis_rate after a rejection that also ran pipe.expire(key, window_seconds)
rate_limit_rejected_expires(key, window_seconds) ==
    [k \in DOMAIN redis_rate |->
        IF k = key
        THEN [value |-> redis_rate[k].value, expires_at |-> now + window_seconds]
        ELSE redis_rate[k]]

\* rate_limit.wrapper, lines 284-288: the 429 is raised before any Redis command
\* other than the get, so the counter and its expiry stay as they are
rate_limit_rejected(key, window_seconds) == redis_rate

\* key expiry as the clock moves to t
ExpireRate(t) == [k \in {x \in DOMAIN redis_rate : redis_rate[x].expires_at > t} |-> redis_rate[k]]
ExpireBlacklist(t) ==
    [k \in {x \in DOMAIN redis_blacklist : redis_blacklist[x] > t} |-> redis_blacklist[k]]

(***************************************************************************)
(* AuthHandler: token creation                                             *)
(***************************************************************************)
SECRET_KEY == "server-secret"

\* secrets.token_urlsafe(16): a value no earlier token carries
fresh_jti == Cardinality(issued) + 1

\* AuthHandler.create_access_token
create_access_token(u) ==
    [user_id |-> u, email |-> users[u].email, roles |-> users[u].roles,
     exp |-> now + ACCESS_TOKEN_EXPIRE_MINUTES * SecondsPerMinute, iat |-> now,
     type |-> "access", jti |-> fresh_jti, key |-> SECRET_KEY]

\* AuthHandler.create_refresh_token: the row that db.add / db.commit persist
new_refresh_row(u) ==
    [token |-> Len(refresh_tokens) + 1, user_id |-> u, created_at |-> now,
     expires_at |-> now + REFRESH_TOKEN_EXPIRE_DAYS * SecondsPerDay,
     revoked |-> FALSE, revoked_at |-> NoTime]

\* the pair handed out although db.add / db.commit stored no row
create_token_pair_unpersisted(u) ==
    /\ Len(refresh_tokens) < MaxTokens
    /\ refresh_tokens' = refresh_tokens
    /\ issued' = issued \cup {create_access_token(u)}

\* AuthHandler.create_token_pair, both tokens created and the row committed
create_token_pair(u) ==
    /\ Len(refresh_tokens) < MaxTokens
    /\ refresh_tokens' = Append(refresh_tokens, new_refresh_row(u))
    /\ issued' = issued \cup {create_access_token(u)}

(***************************************************************************)
(* SecurityService.__init__: the lockout policy                            *)
(***************************************************************************)
max_failed_attempts == 5
lockout_duration == 15 * SecondsPerMinute

Identifiers == {"x", "y"}

\* the dict a lockout call returns; a key the dict does not carry holds NoTime
LockoutResult(op, identifier, locked, attempts, remaining_attempts, locked_until, time_remaining) ==
    [op |-> op, identifier |-> identifier, locked |-> locked, attempts |-> attempts,
     remaining_attempts |-> remaining_attempts, locked_until |-> locked_until,
     time_remaining |-> time_remaining]

NoResult == LockoutResult(None, None, FALSE, NoTime, NoTime, NoTime, NoTime)

\* the last lockout call was not a clear_failed_attempts call
NoCleared == [identifier |-> None, had_record |-> FALSE, was_locked |-> FALSE, count |-> 0]

(***************************************************************************)
(* rate_limit decorator and the login route                                *)
(***************************************************************************)
LOGIN_MAX_REQUESTS == 10
LOGIN_WINDOW_SECONDS == 60

\* key = f"rate_limit:{func.__name__}:{client_ip}"
rate_limit_key(func, client_ip) == <<func, client_ip>>

\* the rejection test made with > in place of >=
rate_limited_strict(key, max_requests) == redis_get(key) > max_requests

\* rate_limit.wrapper, line 284: TRUE when a request that has read the value current
\* is rejected with 429
over_limit(current, max_requests) == current >= max_requests

\* rate_limit.wrapper, lines 283-284 without interruption: read the counter and test it
rate_limited(key, max_requests) == over_limit(redis_get(key), max_requests)

Response(status, detail, refresh_cookie, access_jti) ==
    [status |-> status, detail |-> detail, refresh_cookie |-> refresh_cookie,
     access_jti |-> access_jti]

\* line 130: not user or not verify_password(form_data.password, user.hashed_password),
\* with the password test left out
credentials_rejected_unknown_only(user, pw) == user = None

\* line 130: not user or not verify_password(form_data.password, user.hashed_password)
credentials_rejected(user, pw) ==
    user = None \/ ~verify_password(pw, users[user].hashed_password)

\* lines 133-136 answered with the status and detail of lines 139-142
invalid_credentials_error_as_inactive == Response(403, "Account not activated", NoToken, 0)

\* lines 133-136: HTTPException(401, "Invalid email or password")
invalid_credentials_error == Response(401, "Invalid email or password", NoToken, 0)

\* the line 138 test never taken
account_inactive_never(user) == FALSE

\* line 138: not user.is_active
account_inactive(user) == ~users[user].is_active

\* lines 139-142 answered with the status and detail of lines 133-136
inactive_error_as_invalid == Response(401, "Invalid email or password", NoToken, 0)

\* lines 139-142: HTTPException(403, "Account not activated. Please check your email.")
inactive_error == Response(403, "Account not activated", NoToken, 0)

\* what the body of the login route (lines 128-173) answers for
\* form_data.username = e, form_data.password = pw
handler_response(e, pw) ==
    LET user == get_user_by_email(e)
    IN  IF credentials_rejected(user, pw) THEN invalid_credentials_error
        ELSE IF account_inactive(user) THEN inactive_error
        ELSE Response(200, "ok", Len(refresh_tokens) + 1, fresh_jti)

\* the body of the login route (lines 128-173): the answer, and for an accepted
\* login the token pair (line 145) and update_last_login (line 159)
login_handler(e, pw) ==
    LET user == get_user_by_email(e)
    IN  /\ response' = handler_response(e, pw)
        /\ IF ~credentials_rejected(user, pw) /\ ~account_inactive(user)
           THEN /\ create_token_pair(user)
                /\ users' = [users EXCEPT ![user].last_login = now]
           ELSE UNCHANGED <<refresh_tokens, issued, users>>

\* POST /api/auth/login served without interruption: rate_limit.wrapper, then the body
login(e, pw) ==
    LET key == rate_limit_key("login", ClientIp)
    IN  IF rate_limited(key, LOGIN_MAX_REQUESTS)
        THEN /\ response' = Response(429, "Too many requests", NoToken, 0)
             /\ redis_rate' = rate_limit_rejected(key, LOGIN_WINDOW_SECONDS)
             /\ UNCHANGED <<refresh_tokens, issued, users>>
        ELSE /\ redis_rate' = redis_incr_expire(key, LOGIN_WINDOW_SECONDS)
             /\ login_handler(e, pw)

(***************************************************************************)
(* POST /api/auth/refresh -> AuthHandler.refresh_access_token, one request *)
(* per element of Procs.  Every db.query and every db.commit is a step of  *)
(* its own; requests served by different workers interleave between them.  *)
(***************************************************************************)
NoCookie == 0 - 1

InitReq ==
    [cookie |-> NoToken, token_record |-> 0, result |-> None, new_refresh |-> NoToken,
     after |-> FALSE, valid_at_call |-> FALSE, q_valid |-> FALSE,
     revoked_by_me |-> FALSE, ended_at_call |-> FALSE]

\* the row of token R is Active and unexpired at this moment
RowValid(R) ==
    /\ R \in 1..Len(refresh_tokens)
    /\ ~refresh_tokens[R].revoked
    /\ now < refresh_tokens[R].expires_at

\* the lookup with the revoked == False filter left out
query_refresh_token_ignores_revoked(R) ==
    LET m == {i \in 1..Len(refresh_tokens) :
                /\ refresh_tokens[i].token = R
                /\ refresh_tokens[i].expires_at > now}
    IN  IF m = {} THEN 0 ELSE CHOOSE i \in m : TRUE

\* the lookup with the expires_at > now filter left out
query_refresh_token_ignores_expiry(R) ==
    LET m == {i \in 1..Len(refresh_tokens) :
                /\ refresh_tokens[i].token = R
                /\ refresh_tokens[i].revoked = FALSE}
    IN  IF m = {} THEN 0 ELSE CHOOSE i \in m : TRUE

\* db.query(RefreshToken).filter(token == R, revoked == False, expires_at > now).first()
\* the index of the row, 0 for no row
query_refresh_token(R) ==
    LET m == {i \in 1..Len(refresh_tokens) :
                /\ refresh_tokens[i].token = R
                /\ refresh_tokens[i].revoked = FALSE
                /\ refresh_tokens[i].expires_at > now}
    IN  IF m = {} THEN 0 ELSE CHOOSE i \in m : TRUE

InFlight(q) == pc[q] \in {"query", "check_user", "revoke", "create"}

\* the route reads the cookie and calls refresh_access_token
RefreshCall(p, c) ==
    /\ pc[p] = "idle"
    /\ IF c = NoCookie
       THEN /\ pc' = [pc EXCEPT ![p] = "done"]
            /\ req' = [req EXCEPT ![p] = [InitReq EXCEPT !.cookie = c,
                                                          !.result = "RefreshTokenNotFound"]]
            /\ UNCHANGED overlap
       ELSE /\ pc' = [pc EXCEPT ![p] = "query"]
            /\ req' = [req EXCEPT ![p] = [InitReq EXCEPT !.cookie = c,
                                                          !.after = (c \in rotated),
                                                          !.valid_at_call = RowValid(c),
                                                          !.ended_at_call = (c \in ended)]]
            /\ overlap' = IF \E q \in Procs \ {p} : InFlight(q) /\ req[q].cookie = c
                          THEN overlap \cup {p} \cup {q \in Procs : InFlight(q) /\ req[q].cookie = c}
                          ELSE overlap
    /\ UNCHANGED <<session_history, sessions, key_history, api_keys, check_history, rate_limit_storage, hashed, cipher, admin_result, ended, cleared, rl, rate_window, verify_result, attempt,
                   now, users, refresh_tokens, redis_rate, redis_blacklist, rotated, response,
                   login_history, issued, revoke_called, decoded, failed_attempts,
                   lockout_result, streak>>

\* lines 159-169: look the token up; 401 when no Active, unexpired row matches
RefreshQuery(p) ==
    /\ pc[p] = "query"
    /\ LET rec == query_refresh_token(req[p].cookie)
       IN  IF rec = 0
           THEN /\ pc' = [pc EXCEPT ![p] = "done"]
                /\ req' = [req EXCEPT ![p].result = "InvalidOrExpiredRefreshToken",
                                      ![p].q_valid = RowValid(req[p].cookie)]
           ELSE /\ pc' = [pc EXCEPT ![p] = "check_user"]
                /\ req' = [req EXCEPT ![p].token_record = rec,
                                      ![p].q_valid = RowValid(req[p].cookie)]
    /\ UNCHANGED <<session_history, sessions, key_history, api_keys, check_history, rate_limit_storage, hashed, cipher, admin_result, ended, cleared, rl, rate_window, verify_result, attempt,
                   now, users, refresh_tokens, redis_rate, redis_blacklist, rotated, overlap,
                   response, login_history, issued, revoke_called, decoded, failed_attempts,
                   lockout_result, streak>>

\* lines 172-177: load the user of the row; 401 when missing or inactive
RefreshCheckUser(p) ==
    /\ pc[p] = "check_user"
    /\ LET uid == refresh_tokens[req[p].token_record].user_id
       IN  IF uid \notin UserIds \/ ~users[uid].is_active
           THEN /\ pc' = [pc EXCEPT ![p] = "done"]
                /\ req' = [req EXCEPT ![p].result = "UserNotFoundOrInactive"]
           ELSE /\ pc' = [pc EXCEPT ![p] = "revoke"]
                /\ UNCHANGED req
    /\ UNCHANGED <<session_history, sessions, key_history, api_keys, check_history, rate_limit_storage, hashed, cipher, admin_result, ended, cleared, rl, rate_window, verify_result, attempt,
                   now, users, refresh_tokens, redis_rate, redis_blacklist, rotated, overlap,
                   response, login_history, issued, revoke_called, decoded, failed_attempts,
                   lockout_result, streak>>

\* the rotation revokes the row and clears the flag of every other row
revoke_row_reactivates_others(rows, rec) ==
    [i \in 1..Len(rows) |->
        IF i = rec THEN [rows[i] EXCEPT !.revoked = TRUE, !.revoked_at = now]
        ELSE [rows[i] EXCEPT !.revoked = FALSE]]

\* the rotation stamps revoked_at but leaves the row Active
revoke_row_keeps_active(rows, rec) == [rows EXCEPT ![rec].revoked_at = now]

\* lines 180-181: the UPDATE that the commit of line 182 sends for the loaded row
revoke_row(rows, rec) == [rows EXCEPT ![rec].revoked = TRUE, ![rec].revoked_at = now]

\* lines 180-182: token_record.revoked = True; db.commit()
RefreshRevoke(p) ==
    /\ pc[p] = "revoke"
    /\ refresh_tokens' = revoke_row(refresh_tokens, req[p].token_record)
    /\ pc' = [pc EXCEPT ![p] = "create"]
    /\ req' = [req EXCEPT ![p].revoked_by_me = (refresh_tokens'[req[p].token_record].revoked)]
    /\ UNCHANGED <<session_history, sessions, key_history, api_keys, check_history, rate_limit_storage, hashed, cipher, admin_result, ended, cleared, rl, rate_window, verify_result, attempt,
                   now, users, redis_rate, redis_blacklist, rotated, overlap, response,
                   login_history, issued, revoke_called, decoded, failed_attempts,
                   lockout_result, streak>>

\* line 185: create_token_pair succeeds; the route sets the cookie and returns the pair
RefreshCreate(p) ==
    /\ pc[p] = "create"
    /\ create_token_pair(refresh_tokens[req[p].token_record].user_id)
    /\ pc' = [pc EXCEPT ![p] = "done"]
    /\ req' = [req EXCEPT ![p].result = "pair",
                          ![p].new_refresh = Len(refresh_tokens) + 1]
    /\ rotated' = rotated \cup {req[p].cookie}
    /\ UNCHANGED <<session_history, sessions, key_history, api_keys, check_history, rate_limit_storage, hashed, cipher, admin_result, ended, cleared, rl, rate_window, verify_result, attempt,
                   now, users, redis_rate, redis_blacklist, overlap, response, login_history,
                   revoke_called, decoded, failed_attempts, lockout_result,
                   streak>>

\* line 185 -> line 104: the commit of the new row raises (or the worker dies before
\* it): no row is added, no pair is returned
RefreshCreateFail(p) ==
    /\ pc[p] = "create"
    /\ pc' = [pc EXCEPT ![p] = "done"]
    /\ req' = [req EXCEPT ![p].result = "StorageError"]
    /\ UNCHANGED <<session_history, sessions, key_history, api_keys, check_history, rate_limit_storage, hashed, cipher, admin_result, ended, cleared, rl, rate_window, verify_result, attempt,
                   now, users, refresh_tokens, redis_rate, redis_blacklist, rotated, overlap,
                   response, login_history, issued, revoke_called, decoded, failed_attempts,
                   lockout_result, streak>>

\* the response has been sent; the worker takes the next request
RefreshReturn(p) ==
    /\ pc[p] = "done"
    /\ pc' = [pc EXCEPT ![p] = "idle"]
    /\ req' = [req EXCEPT ![p] = InitReq]
    /\ overlap' = overlap \ {p}
    /\ UNCHANGED <<session_history, sessions, key_history, api_keys, check_history, rate_limit_storage, hashed, cipher, admin_result, ended, cleared, rl, rate_window, verify_result, attempt,
                   now, users, refresh_tokens, redis_rate, redis_blacklist, rotated, response,
                   login_history, issued, revoke_called, decoded, failed_attempts,
                   lockout_result, streak>>

\* a login request while refresh requests are being served
RefreshLogin(e, pw) ==
    /\ Len(refresh_tokens) < MaxLogins
    /\ login(e, pw)
    /\ UNCHANGED <<session_history, sessions, key_history, api_keys, check_history, rate_limit_storage, hashed, cipher, admin_result, ended, cleared, rl, rate_window, verify_result, attempt,
                   now, redis_blacklist, pc, req, rotated, overlap, login_history,
                   revoke_called, decoded, failed_attempts, lockout_result,
                   streak>>

\* the clock advances by d seconds; Redis drops the keys whose TTL has run out
Tick(d, horizon) ==
    /\ now + d <= horizon
    /\ now' = now + d
    /\ redis_rate' = ExpireRate(now + d)
    /\ redis_blacklist' = ExpireBlacklist(now + d)

RefreshTimeSteps == {REFRESH_TOKEN_EXPIRE_DAYS * SecondsPerDay}

RefreshTick(d) ==
    /\ Tick(d, MaxRefreshTime)
    /\ UNCHANGED <<session_history, sessions, key_history, api_keys, check_history, rate_limit_storage, hashed, cipher, admin_result, ended, cleared, rl, rate_window, verify_result, attempt,
                   users, refresh_tokens, pc, req, rotated, overlap, response, login_history,
                   issued, revoke_called, decoded, failed_attempts, lockout_result,
                   streak>>

InitCommon ==
    /\ now = 0
    /\ users = InitUsers
    /\ refresh_tokens = <<>>
    /\ redis_rate = <<>>
    /\ redis_blacklist = <<>>
    /\ pc = [p \in Procs |-> "idle"]
    /\ req = [p \in Procs |-> InitReq]
    /\ rotated = {}
    /\ overlap = {}
    /\ response = Response(0, "none", NoToken, 0)
    /\ login_history = [by_email |-> [e \in Emails |-> [failures |-> 0, first_at |-> NoTime]],
                        locked_before |-> FALSE, valid_credentials |-> FALSE]
    /\ issued = {}
    /\ revoke_called = {}
    /\ decoded = [jti |-> NoJti, key |-> None, exp |-> 0, at |-> 0, revoked_before |-> FALSE,
                  outcome |-> None]
    /\ failed_attempts = <<>>
    /\ lockout_result = NoResult
    /\ streak = [x \in Identifiers |-> 0]
    /\ cleared = NoCleared
    /\ rl = [p \in Procs |-> [pc |-> "idle", current |-> 0]]
    /\ rate_window = [start |-> NoTime, admitted |-> 0, last_at |-> NoTime, last_status |-> 0,
                      last_start |-> NoTime, rejected_expires_at |-> NoTime,
                      readmitted |-> FALSE]
    /\ verify_result = [status |-> 0, detail |-> "none"]
    /\ attempt = [email |-> None, password |-> None, known |-> FALSE, active |-> FALSE,
                  password_ok |-> FALSE, limited |-> FALSE]
    /\ ended = {}
    /\ admin_result = [op |-> None, status |-> 0, detail |-> "none", handler_ran |-> FALSE]
    /\ cipher = [op |-> None, input |-> <<>>, stored |-> <<>>, output |-> <<>>, success |-> FALSE]
    /\ hashed = [op |-> None, password |-> <<>>, stored |-> None, salt |-> None, candidate |-> <<>>, verified |-> FALSE]
    /\ rate_limit_storage = <<>>
    /\ check_history = [allowed |-> <<>>, found_full_at |-> <<>>, last |-> [identifier |-> None, result |-> FALSE]]
    /\ api_keys = <<>>
    /\ key_history = [revoked |-> {}, verified |-> <<>>, last |-> [op |-> None, api_key |-> 0, result |-> None]]
    /\ sessions = <<>>
    /\ session_history = [created |-> 0, ended |-> {},
                          last |-> [op |-> None, session_id |-> 0, valid |-> FALSE,
                                    reason |-> None]]

Init == InitCommon

RefreshNext ==
    \/ \E e \in {"a@x"}, pw \in {"pw1"} : RefreshLogin(e, pw)
    \/ \E p \in Procs : \E c \in {NoCookie, NoToken} \cup (1..Len(refresh_tokens)) : RefreshCall(p, c)
    \/ \E p \in Procs : RefreshQuery(p)
    \/ \E p \in Procs : RefreshCheckUser(p)
    \/ \E p \in Procs : RefreshRevoke(p)
    \/ \E p \in Procs : RefreshCreate(p)
    \/ \E p \in Procs : RefreshCreateFail(p)
    \/ \E p \in Procs : RefreshReturn(p)
    \/ \E d \in RefreshTimeSteps : RefreshTick(d)

SpecRefresh == Init /\ [][RefreshNext]_vars

(***************************************************************************)
(* Refresh-token rotation: claims C1 - C5, checked under SpecRefresh       *)
(***************************************************************************)
Finished(p) == pc[p] = "done"

\* C1: of two concurrent refresh_access_token(R) calls on a token R that is Active and
\* unexpired, exactly one returns a token pair and the other fails because it finds R
\* already revoked (calls whose commit failed are left aside).
C1_ExactlyOneConcurrentRotation ==
    \A p \in Procs : \A q \in Procs \ {p} :
        ( /\ Finished(p) /\ Finished(q)
          /\ p \in overlap /\ q \in overlap
          /\ req[p].cookie = req[q].cookie
          /\ req[p].valid_at_call \/ req[q].valid_at_call
          /\ now < refresh_tokens[req[p].cookie].expires_at
          /\ req[p].result # "StorageError" /\ req[q].result # "StorageError" )
        => \/ req[p].result = "pair" /\ req[q].result = "InvalidOrExpiredRefreshToken"
           \/ req[q].result = "pair" /\ req[p].result = "InvalidOrExpiredRefreshToken"

\* C2: a refresh_access_token(R) call that starts after some call with the same R has
\* returned a pair never gets past the lookup: it ends with the invalid-or-expired
\* error and has issued nothing.
C2_RotatedTokenIsRejected ==
    \A p \in Procs :
        req[p].after =>
            /\ pc[p] \in {"query", "done"}
            /\ req[p].new_refresh = NoToken
            /\ ~req[p].revoked_by_me
            /\ Finished(p) => req[p].result = "InvalidOrExpiredRefreshToken"

C2_Witness ==
    \E p \in Procs :
        /\ Finished(p) /\ req[p].after
        /\ req[p].result = "InvalidOrExpiredRefreshToken"

\* C3: whenever refresh_access_token(R) has returned a pair, the row of R is persisted
\* as revoked.
C3_ReturnedPairImpliesRevoked ==
    \A p \in Procs :
        (Finished(p) /\ req[p].result = "pair") =>
            /\ refresh_tokens[req[p].cookie].revoked
            /\ refresh_tokens[req[p].cookie].revoked_at # NoTime

C3_Witness ==
    \E p \in Procs :
        /\ Finished(p) /\ req[p].result = "pair"
        /\ req[p].new_refresh \in 1..Len(refresh_tokens)
        /\ ~refresh_tokens[req[p].new_refresh].revoked

\* C4: no rotation call ends (returned, failed or aborted) having marked its refresh
\* token revoked without having persisted a new refresh-token row for the same subject.
C4_RotationIsAtomic ==
    \A p \in Procs :
        (Finished(p) /\ req[p].revoked_by_me) =>
            /\ req[p].new_refresh \in 1..Len(refresh_tokens)
            /\ refresh_tokens[req[p].new_refresh].user_id
                   = refresh_tokens[req[p].cookie].user_id

\* C5: a refresh call gets past the lookup, and so can return a pair, only if at the
\* lookup the row of R exists, is not revoked and now < expires_at; a lookup made in
\* any other case ends the call with the invalid-or-expired error and changes no row
\* and issues no token.
C5_PairOnlyIfValid ==
    \A p \in Procs :
        (pc[p] \in {"check_user", "revoke", "create"} \/ req[p].result = "pair")
            => req[p].q_valid

C5_LookupStep ==
    \A p \in Procs :
        (pc[p] = "query" /\ pc'[p] # "query") =>
            IF RowValid(req[p].cookie)
            THEN pc'[p] = "check_user"
            ELSE /\ pc'[p] = "done"
                 /\ req'[p].result = "InvalidOrExpiredRefreshToken"
                 /\ req'[p].new_refresh = NoToken
                 /\ refresh_tokens' = refresh_tokens
                 /\ issued' = issued

C5_InvalidTokenRejected == [](C5_PairOnlyIfValid) /\ [][C5_LookupStep]_vars

\* an expired, never revoked token has been presented and rejected
C5_Witness ==
    \E p \in Procs :
        /\ Finished(p) /\ req[p].result = "InvalidOrExpiredRefreshToken"
        /\ req[p].cookie \in 1..Len(refresh_tokens)
        /\ ~refresh_tokens[req[p].cookie].revoked
        /\ now >= refresh_tokens[req[p].cookie].expires_at

(***************************************************************************)
(* Access tokens: AuthHandler.decode_token, revoke_token, _extract_jti     *)
(***************************************************************************)
MaxBlacklistTime == 3600      \* clock horizon of the access-token model

\* jose.jwt.decode(token, key, algorithms=None, options=None): key is a required
\* parameter, so a call that does not pass it raises TypeError before it looks at the
\* token.  Otherwise: JWTError for a signature that does not verify,
\* ExpiredSignatureError once exp < now, else the claims.
jose_decode(token, key_passed, key, verify_signature) ==
    IF ~key_passed THEN "TypeError"
    ELSE IF verify_signature /\ token.key # key THEN "JWTError"
    ELSE IF token.exp < now THEN "ExpiredSignatureError"
    ELSE "claims"

\* AuthHandler._extract_jti: jwt.decode(token, options={"verify_signature": False}),
\* no key passed; the bare except turns every exception into None
extract_jti(token) ==
    IF jose_decode(token, FALSE, None, FALSE) = "claims" THEN token.jti ELSE NoJti

\* redis_client.get(f"blacklist:{jti}")
blacklisted(jti) == jti \in DOMAIN redis_blacklist /\ now < redis_blacklist[jti]

\* redis_client.setex(f"blacklist:{jti}", ttl, "1")
redis_setex(jti, ttl) ==
    [k \in DOMAIN redis_blacklist \cup {jti} |->
        IF k = jti THEN now + ttl ELSE redis_blacklist[k]]

\* decode_token with the signature test of line 139 switched off, as in the peek
decode_token_unverified(token) ==
    LET payload == jose_decode(token, TRUE, SECRET_KEY, FALSE)
    IN  IF payload = "ExpiredSignatureError" THEN "Token has expired"
        ELSE IF payload = "JWTError" THEN "Invalid token"
        ELSE "claims"

\* AuthHandler.decode_token: the claims, or the detail of the 401 it raises
decode_token(token) ==
    LET jti == extract_jti(token)
    IN  IF jti # NoJti /\ blacklisted(jti)
        THEN "Token has been revoked"
        ELSE LET payload == jose_decode(token, TRUE, SECRET_KEY, TRUE)
             IN  IF payload = "ExpiredSignatureError" THEN "Token has expired"
                 ELSE IF payload = "JWTError" THEN "Invalid token"
                 ELSE "claims"

\* line 196: ttl = self.access_token_expire_minutes * 60, whatever the token's exp is
blacklist_ttl == ACCESS_TOKEN_EXPIRE_MINUTES * SecondsPerMinute

\* AuthHandler.revoke_token(token, token_type): the blacklist after the call
revoke_token(token, token_type) ==
    IF token_type = "access"
    THEN LET jti == extract_jti(token)
         IN  IF jti # NoJti
             THEN redis_setex(jti, blacklist_ttl)
             ELSE redis_blacklist
    ELSE redis_blacklist

\* a token signed with a key other than the server's, carrying the claims of t
Forged(t) == [t EXCEPT !.key = "attacker-key"]

Presentable == issued \cup {Forged(t) : t \in issued}

\* a caller revokes a token
RevokeToken(t, token_type) ==
    /\ redis_blacklist' = revoke_token(t, token_type)
    /\ revoke_called' = IF token_type = "access" /\ t \in issued
                        THEN revoke_called \cup {t.jti} ELSE revoke_called
    /\ UNCHANGED <<session_history, sessions, key_history, api_keys, check_history, rate_limit_storage, hashed, cipher, admin_result, ended, cleared, rl, rate_window, verify_result, attempt,
                   now, users, refresh_tokens, redis_rate, pc, req, rotated, overlap, response,
                   login_history, issued, decoded, failed_attempts, lockout_result,
                   streak>>

\* a request presents a token; decode_token decides
DecodeToken(t) ==
    /\ decoded' = [jti |-> t.jti, key |-> t.key, exp |-> t.exp, at |-> now,
                   revoked_before |-> (t \in issued /\ t.jti \in revoke_called),
                   outcome |-> decode_token(t)]
    /\ UNCHANGED <<session_history, sessions, key_history, api_keys, check_history, rate_limit_storage, hashed, cipher, admin_result, ended, cleared, rl, rate_window, verify_result, attempt,
                   now, users, refresh_tokens, redis_rate, redis_blacklist, pc, req, rotated,
                   overlap, response, login_history, issued, revoke_called, failed_attempts,
                   lockout_result, streak>>

BlacklistLogin(e, pw) ==
    /\ login(e, pw)
    /\ UNCHANGED <<session_history, sessions, key_history, api_keys, check_history, rate_limit_storage, hashed, cipher, admin_result, ended, cleared, rl, rate_window, verify_result, attempt,
                   now, redis_blacklist, pc, req, rotated, overlap, login_history,
                   revoke_called, decoded, failed_attempts, lockout_result,
                   streak>>

BlacklistTimeSteps == {900, ACCESS_TOKEN_EXPIRE_MINUTES * SecondsPerMinute}

BlacklistTick(d) ==
    /\ Tick(d, MaxBlacklistTime)
    /\ UNCHANGED <<session_history, sessions, key_history, api_keys, check_history, rate_limit_storage, hashed, cipher, admin_result, ended, cleared, rl, rate_window, verify_result, attempt,
                   users, refresh_tokens, pc, req, rotated, overlap, response, login_history,
                   issued, revoke_called, decoded, failed_attempts, lockout_result,
                   streak>>

BlacklistNext ==
    \/ \E e \in {"a@x"}, pw \in {"pw1"} : BlacklistLogin(e, pw)
    \/ \E t \in Presentable, ty \in {"access", "refresh"} : RevokeToken(t, ty)
    \/ \E t \in Presentable : DecodeToken(t)
    \/ \E d \in BlacklistTimeSteps : BlacklistTick(d)

SpecBlacklist == Init /\ [][BlacklistNext]_vars

(***************************************************************************)
(* Access-token revocation: claim C6, checked under SpecBlacklist          *)
(***************************************************************************)
\* C6: once revoke_token has been called on an access token, every later decode_token
\* of that token made before its expiry (now < exp) rejects it.
C6_RevokedTokenIsRejected ==
    (decoded.revoked_before /\ decoded.at < decoded.exp) => decoded.outcome # "claims"

\* C24: when revoke_token is called on an access token that has not expired, the TTL
\* it gives the blacklist entry is the token's remaining lifetime, exp - now, and an
\* entry for the token's jti, once written, does not outlive the token.
C24_RevokeStep ==
    \A t \in issued :
        (RevokeToken(t, "access") /\ now < t.exp) =>
            /\ blacklist_ttl = t.exp - now
            /\ t.jti \in DOMAIN redis_blacklist' => redis_blacklist'[t.jti] <= t.exp

C24_TtlIsRemainingLifetime == [][C24_RevokeStep]_vars

\* C25: every decode_token call ends in one of four outcomes, the claims, Expired,
\* Revoked or Invalid: a token signed with the server's key and past its exp is
\* reported as Expired, an unexpired token on which revoke_token has been called
\* (its jti is blacklisted) as Revoked, and a token whose signature does not verify
\* as Invalid.
C25_FourOutcomes ==
    decoded.outcome # None =>
        /\ decoded.outcome \in {"claims", "Token has expired", "Token has been revoked",
                                 "Invalid token"}
        /\ (decoded.key = SECRET_KEY /\ decoded.exp < decoded.at /\ ~decoded.revoked_before) =>
               decoded.outcome = "Token has expired"
        /\ (decoded.key = SECRET_KEY /\ decoded.at < decoded.exp /\ decoded.revoked_before) =>
               decoded.outcome = "Token has been revoked"
        /\ (decoded.key # SECRET_KEY /\ ~decoded.revoked_before) =>
               decoded.outcome = "Invalid token"

(***************************************************************************)
(* decode_token over any content of the blacklist: the keys blacklist:{jti} *)
(* live in the shared Redis server, where any client can write them.       *)
(***************************************************************************)
\* a Redis client sets blacklist:{jti} for the lifetime of an access token
BlacklistWrite(jti) ==
    /\ redis_blacklist' = redis_setex(jti, blacklist_ttl)
    /\ UNCHANGED <<session_history, sessions, key_history, api_keys, check_history, rate_limit_storage, hashed, cipher, admin_result, ended,
                   cleared, rl, rate_window, verify_result, attempt, now, users,
                   refresh_tokens, redis_rate, pc, req, rotated, overlap, response,
                   login_history, issued, revoke_called, decoded, failed_attempts,
                   lockout_result, streak>>

DecodeTimeSteps == {ACCESS_TOKEN_EXPIRE_MINUTES * SecondsPerMinute}

DecodeNext ==
    \/ \E e \in {"a@x"}, pw \in {"pw1"} : BlacklistLogin(e, pw)
    \/ \E t \in issued : BlacklistWrite(t.jti)
    \/ \E t \in Presentable : DecodeToken(t)
    \/ \E d \in DecodeTimeSteps : BlacklistTick(d)

SpecDecode == Init /\ [][DecodeNext]_vars

\* C32: decode_token never returns claims for a token whose signature does not verify
\* under the server secret or whose expiry has passed, whatever the blacklist
\* contains.
C32_ClaimsOnlyIfVerified ==
    decoded.outcome = "claims" => (decoded.key = SECRET_KEY /\ ~(decoded.exp < decoded.at))

\* a forged token whose jti is on the blacklist was presented and rejected
C32_Witness ==
    /\ decoded.outcome = "Invalid token"
    /\ decoded.key # SECRET_KEY
    /\ decoded.jti \in DOMAIN redis_blacklist

(***************************************************************************)
(* The login route under repeated attempts.  login_history records what    *)
(* the route has answered: per email the number of consecutive 401         *)
(* answers and the time of the first of them, and whether the last attempt *)
(* came after max_failed_attempts failures all made less than              *)
(* lockout_duration ago, and whether it carried the password of an active  *)
(* user.                                                                   *)
(***************************************************************************)
MaxLoginTime == 900           \* clock horizon of the login model

LockedByHistory(e) ==
    /\ login_history.by_email[e].failures >= max_failed_attempts
    /\ now < login_history.by_email[e].first_at + lockout_duration

\* e is the email of an active user and pw is that user's password
ValidCredentials(e, pw) ==
    \E u \in UserIds :
        users[u].email = e /\ users[u].hashed_password = pw /\ users[u].is_active

record_attempt(e, pw, status) ==
    LET h == login_history.by_email[e]
        h2 == IF status = 401
              THEN [failures |-> IF h.failures < max_failed_attempts THEN h.failures + 1
                                 ELSE h.failures,
                    first_at |-> IF h.failures = 0 THEN now ELSE h.first_at]
              ELSE IF status = 200 THEN [failures |-> 0, first_at |-> NoTime]
              ELSE h
    IN  [by_email |-> [login_history.by_email EXCEPT ![e] = h2],
         locked_before |-> LockedByHistory(e),
         valid_credentials |-> ValidCredentials(e, pw)]

LoginAttempt(e, pw) ==
    /\ login(e, pw)
    /\ login_history' = record_attempt(e, pw, response'.status)
    /\ UNCHANGED <<session_history, sessions, key_history, api_keys, check_history, rate_limit_storage, hashed, cipher, admin_result, ended, cleared, rl, rate_window, verify_result, attempt,
                   now, redis_blacklist, pc, req, rotated, overlap, revoke_called, decoded,
                   failed_attempts, lockout_result,
                   streak>>

LoginTimeSteps == {lockout_duration}

LoginTick(d) ==
    /\ Tick(d, MaxLoginTime)
    /\ UNCHANGED <<session_history, sessions, key_history, api_keys, check_history, rate_limit_storage, hashed, cipher, admin_result, ended, cleared, rl, rate_window, verify_result, attempt,
                   users, refresh_tokens, pc, req, rotated, overlap, response, login_history,
                   issued, revoke_called, decoded, failed_attempts, lockout_result,
                   streak>>

LoginNext ==
    \/ \E e \in Emails, pw \in Passwords : LoginAttempt(e, pw)
    \/ \E d \in LoginTimeSteps : LoginTick(d)

SpecLogin == Init /\ [][LoginNext]_vars

\* C7: a login attempt for an email made after max_failed_attempts failed attempts for
\* that email, all less than lockout_duration ago, is rejected as AccountLocked and
\* issues no token pair even when it carries the correct password.
C7_LockedLoginIsRejected ==
    (login_history.locked_before /\ login_history.valid_credentials) =>
        /\ response.status = 403
        /\ response.detail = "AccountLocked"
        /\ response.refresh_cookie = NoToken
        /\ response.access_jti = NoJti

(***************************************************************************)
(* SecurityService: track_failed_attempt, is_locked_out,                   *)
(* clear_failed_attempts                                                   *)
(***************************************************************************)
MaxCount == 6                 \* failures recorded for one identifier
MaxLockoutTime == 1200        \* clock horizon of the lockout model

LockoutTimeSteps == {300, lockout_duration}

\* lines 256-266: the record of identifier after the increment, read at current_time
counted(identifier, current_time) ==
    LET attempt_data == IF identifier \in DOMAIN failed_attempts
                        THEN failed_attempts[identifier]
                        ELSE [count |-> 0, first_attempt |-> current_time,
                              last_attempt |-> current_time, locked_until |-> NoTime]
    IN  [attempt_data EXCEPT !.count = @ + 1, !.last_attempt = current_time]

\* the lockout test made with > in place of >=
should_lock_strict(count) == count > max_failed_attempts

\* line 269: the lockout test
should_lock(count) == count >= max_failed_attempts

\* the record as track_failed_attempt would leave it if a lock that is already set
\* were kept as it is
tracked_keeps_lock(identifier, current_time) ==
    LET attempt_data == counted(identifier, current_time)
    IN  IF should_lock(attempt_data.count) /\ attempt_data.locked_until = NoTime
        THEN [attempt_data EXCEPT !.locked_until = current_time + lockout_duration]
        ELSE attempt_data

\* lines 269-270: the record as track_failed_attempt leaves it
tracked(identifier, current_time) ==
    LET attempt_data == counted(identifier, current_time)
    IN  IF should_lock(attempt_data.count)
        THEN [attempt_data EXCEPT !.locked_until = current_time + lockout_duration]
        ELSE attempt_data

\* SecurityService.track_failed_attempt(identifier)
track_failed_attempt(identifier) ==
    LET attempt_data == tracked(identifier, now)
    IN  /\ failed_attempts' =
              [k \in DOMAIN failed_attempts \cup {identifier} |->
                  IF k = identifier THEN attempt_data ELSE failed_attempts[k]]
        /\ lockout_result' =
              IF should_lock(attempt_data.count)
              THEN LockoutResult("track_failed_attempt", identifier, TRUE, attempt_data.count,
                                 NoTime, attempt_data.locked_until, NoTime)
              ELSE LockoutResult("track_failed_attempt", identifier, FALSE, attempt_data.count,
                                 max_failed_attempts - attempt_data.count, NoTime, NoTime)

\* the deletion skipped for an identifier that is locked at this moment
without_unless_locked(identifier) ==
    IF /\ identifier \in DOMAIN failed_attempts
       /\ failed_attempts[identifier].locked_until # NoTime
       /\ now < failed_attempts[identifier].locked_until
    THEN failed_attempts
    ELSE [k \in DOMAIN failed_attempts \ {identifier} |-> failed_attempts[k]]

\* failed_attempts without the record of identifier
without(identifier) ==
    [k \in DOMAIN failed_attempts \ {identifier} |-> failed_attempts[k]]

\* the line 303 test with the comparison turned round
still_locked_inverted(locked_until, t) == locked_until # NoTime /\ t > locked_until

\* line 303: locked_until and datetime.now() < locked_until
still_locked(locked_until, t) == locked_until # NoTime /\ t < locked_until

\* the line 312 test without its "locked_until and" part
lockout_passed_unlocked_too(locked_until, t) == t >= locked_until

\* the line 312 test made with > in place of >=
lockout_passed_strict(locked_until, t) == locked_until # NoTime /\ t > locked_until

\* line 312: locked_until and datetime.now() >= locked_until
lockout_passed(locked_until, t) == locked_until # NoTime /\ t >= locked_until

\* SecurityService.is_locked_out(identifier).  datetime.now() is read at line 303 (t1)
\* and again at line 308 or 312 (t2 >= t1).
is_locked_out(identifier, t1, t2) ==
    IF identifier \notin DOMAIN failed_attempts
    THEN /\ lockout_result' = LockoutResult("is_locked_out", identifier, FALSE, 0, NoTime,
                                            NoTime, NoTime)
         /\ UNCHANGED failed_attempts
    ELSE LET attempt_data == failed_attempts[identifier]
             locked_until == attempt_data.locked_until
         IN  IF still_locked(locked_until, t1)
             THEN /\ lockout_result' = LockoutResult("is_locked_out", identifier, TRUE,
                                                     attempt_data.count, NoTime, locked_until,
                                                     locked_until - t2)
                  /\ UNCHANGED failed_attempts
             ELSE /\ failed_attempts' = IF lockout_passed(locked_until, t2)
                                        THEN without(identifier)
                                        ELSE failed_attempts
                  /\ lockout_result' = LockoutResult("is_locked_out", identifier, FALSE,
                                                     attempt_data.count, NoTime, NoTime, NoTime)

\* SecurityService.clear_failed_attempts(identifier)
clear_failed_attempts(identifier) ==
    /\ failed_attempts' = without(identifier)
    /\ lockout_result' = LockoutResult("clear_failed_attempts", identifier, FALSE, NoTime,
                                       NoTime, NoTime, NoTime)

TrackFailedAttempt(x) ==
    /\ x \in DOMAIN failed_attempts => failed_attempts[x].count < MaxCount
    /\ track_failed_attempt(x)
    /\ streak' = [streak EXCEPT ![x] = (IF x \in DOMAIN failed_attempts THEN @ ELSE 0) + 1]
    /\ cleared' = NoCleared
    /\ UNCHANGED <<session_history, sessions, key_history, api_keys, check_history, rate_limit_storage, hashed, cipher, admin_result, ended, rl, rate_window, verify_result, attempt,
                   now, users, refresh_tokens, redis_rate, redis_blacklist, pc, req, rotated,
                   overlap, response, login_history, issued, revoke_called, decoded>>

\* the call starts at now and its last clock read happens at t2
IsLockedOut(x, t2) ==
    /\ is_locked_out(x, now, t2)
    /\ now' = t2
    /\ streak' = [k \in Identifiers |-> IF k \in DOMAIN failed_attempts' THEN streak[k] ELSE 0]
    /\ cleared' = NoCleared
    /\ UNCHANGED <<session_history, sessions, key_history, api_keys, check_history, rate_limit_storage, hashed, cipher, admin_result, ended, rl, rate_window, verify_result, attempt,
                   users, refresh_tokens, redis_rate, redis_blacklist, pc, req, rotated,
                   overlap, response, login_history, issued, revoke_called, decoded>>

ClearFailedAttempts(x) ==
    /\ clear_failed_attempts(x)
    /\ streak' = [streak EXCEPT ![x] = 0]
    /\ cleared' = [identifier |-> x, had_record |-> (x \in DOMAIN failed_attempts),
                   was_locked |-> (/\ x \in DOMAIN failed_attempts
                                   /\ failed_attempts[x].locked_until # NoTime
                                   /\ now < failed_attempts[x].locked_until),
                   count |-> IF x \in DOMAIN failed_attempts THEN failed_attempts[x].count ELSE 0]
    /\ UNCHANGED <<session_history, sessions, key_history, api_keys, check_history, rate_limit_storage, hashed, cipher, admin_result, ended, rl, rate_window, verify_result, attempt,
                   now, users, refresh_tokens, redis_rate, redis_blacklist, pc, req, rotated,
                   overlap, response, login_history, issued, revoke_called, decoded>>

LockoutTick(d) ==
    /\ Tick(d, MaxLockoutTime)
    /\ UNCHANGED <<session_history, sessions, key_history, api_keys, check_history, rate_limit_storage, hashed, cipher, admin_result, ended, cleared, rl, rate_window, verify_result, attempt,
                   users, refresh_tokens, pc, req, rotated, overlap, response, login_history,
                   issued, revoke_called, decoded, failed_attempts, lockout_result,
                   streak>>

\* the clock values a call that starts at now may read later on
LaterReads == {now} \cup {now + d : d \in {e \in LockoutTimeSteps : now + e <= MaxLockoutTime}}

LockoutNext ==
    \/ \E x \in Identifiers : TrackFailedAttempt(x)
    \/ \E x \in Identifiers : \E t2 \in LaterReads : IsLockedOut(x, t2)
    \/ \E x \in Identifiers : ClearFailedAttempts(x)
    \/ \E d \in LockoutTimeSteps : LockoutTick(d)

SpecLockout == Init /\ [][LockoutNext]_vars

(***************************************************************************)
(* Lockout tracking: claims C8 - C10, checked under SpecLockout            *)
(***************************************************************************)
LockedUntil(x) == IF x \in DOMAIN failed_attempts THEN failed_attempts[x].locked_until ELSE NoTime

\* C8: starting from no record for x, the k-th consecutive track_failed_attempt(x)
\* reports locked = false with remaining_attempts = max_failed_attempts - k for every
\* k < max_failed_attempts, and the call with k = max_failed_attempts reports
\* locked = true and sets locked_until = now + lockout_duration.
C8_TrackStep ==
    \A x \in Identifiers :
        TrackFailedAttempt(x) =>
            LET k == streak'[x]
            IN  /\ k < max_failed_attempts =>
                       /\ ~lockout_result'.locked
                       /\ lockout_result'.remaining_attempts = max_failed_attempts - k
                       /\ failed_attempts'[x].locked_until = NoTime
                /\ k = max_failed_attempts =>
                       /\ lockout_result'.locked
                       /\ lockout_result'.locked_until = now + lockout_duration
                       /\ failed_attempts'[x].locked_until = now + lockout_duration

C8_FifthFailureLocks == [][C8_TrackStep]_vars

C8_Witness ==
    /\ lockout_result.op = "track_failed_attempt"
    /\ lockout_result.locked
    /\ streak[lockout_result.identifier] = max_failed_attempts
    /\ lockout_result.locked_until = now + lockout_duration

\* C9: an is_locked_out(x) call that runs while x's locked_until is set and not yet
\* reached reports locked = true with a positive time_remaining and leaves
\* failed_attempts as it was.
C9_LockedStep ==
    \A x \in Identifiers : \A t2 \in LaterReads :
        (IsLockedOut(x, t2) /\ LockedUntil(x) # NoTime /\ t2 < LockedUntil(x)) =>
            /\ lockout_result'.locked
            /\ lockout_result'.time_remaining > 0
            /\ lockout_result'.time_remaining = LockedUntil(x) - t2
            /\ failed_attempts' = failed_attempts

C10_ExpiredStep ==
    \A x \in Identifiers : \A t2 \in LaterReads :
        (IsLockedOut(x, t2) /\ LockedUntil(x) # NoTime /\ now >= LockedUntil(x)) =>
            /\ ~lockout_result'.locked
            /\ x \notin DOMAIN failed_attempts'
            /\ \A y \in Identifiers \ {x} :
                   /\ (y \in DOMAIN failed_attempts') = (y \in DOMAIN failed_attempts)
                   /\ y \in DOMAIN failed_attempts => failed_attempts'[y] = failed_attempts[y]

C10_ExpiredLockoutIsCleared == [][C10_ExpiredStep]_vars

C10_Witness ==
    /\ lockout_result.op = "is_locked_out"
    /\ ~lockout_result.locked
    /\ lockout_result.attempts >= max_failed_attempts
    /\ lockout_result.identifier \notin DOMAIN failed_attempts

\* a check that starts before locked_until and ends after it
StraddlingCheck ==
    /\ lockout_result.op = "is_locked_out"
    /\ lockout_result.locked
    /\ lockout_result.time_remaining <= 0

(***************************************************************************)
(* rate_limit on the login route, requests served one after the other.     *)
(* rate_window records, for the key of the login route, the time of the    *)
(* first request admitted since the counter was last absent and the number *)
(* of requests admitted since then, and for the last request its time, its *)
(* status and the start of the window it arrived in; for a rejected        *)
(* request the expiry the counter had when it was rejected, and for an     *)
(* admitted one whether the request before it was rejected.                *)
(***************************************************************************)
MaxRateTime == 120            \* clock horizon of the rate-limit model

LoginKey == rate_limit_key("login", ClientIp)

\* the counter of key exists at this moment
CounterAlive(key) == key \in DOMAIN redis_rate /\ now < redis_rate[key].expires_at

\* rate_window after a request made now that was answered with status
record_request(status) ==
    LET alive == CounterAlive(LoginKey)
    IN  [start |-> IF status = 429 THEN rate_window.start
                   ELSE IF alive THEN rate_window.start ELSE now,
         admitted |-> IF status = 429 THEN rate_window.admitted
                      ELSE IF alive THEN rate_window.admitted + 1 ELSE 1,
         last_at |-> now,
         last_status |-> status,
         last_start |-> IF alive THEN rate_window.start ELSE NoTime,
         rejected_expires_at |-> IF status = 429 /\ LoginKey \in DOMAIN redis_rate
                                 THEN redis_rate[LoginKey].expires_at
                                 ELSE NoTime,
         readmitted |-> status # 429 /\ rate_window.last_status = 429]

RateLogin(e, pw) ==
    /\ login(e, pw)
    /\ rate_window' = record_request(response'.status)
    /\ UNCHANGED <<session_history, sessions, key_history, api_keys, check_history, rate_limit_storage, hashed, cipher, admin_result, ended, now, redis_blacklist, pc, req, rotated, overlap, login_history,
                   revoke_called, decoded, failed_attempts, lockout_result, streak, cleared,
                   rl, verify_result, attempt>>

RateTimeSteps == {20, LOGIN_WINDOW_SECONDS}

RateTick(d) ==
    /\ Tick(d, MaxRateTime)
    /\ UNCHANGED <<session_history, sessions, key_history, api_keys, check_history, rate_limit_storage, hashed, cipher, admin_result, ended, users, refresh_tokens, pc, req, rotated, overlap, response, login_history,
                   issued, revoke_called, decoded, failed_attempts, lockout_result, streak,
                   cleared, rl, rate_window, verify_result, attempt>>

RateNext ==
    \/ \E e \in {"a@x"}, pw \in Passwords : RateLogin(e, pw)
    \/ \E d \in RateTimeSteps : RateTick(d)

SpecRate == Init /\ [][RateNext]_vars

\* the requests admitted in the window a request arrives in
AdmittedSoFar == IF CounterAlive(LoginKey) THEN rate_window.admitted ELSE 0

\* C13: for the login route (limit 10, window 60 s) and one client IP, a request
\* arriving when fewer than 10 requests have been admitted since the counter was
\* created is admitted, and a request arriving while the counter of 10 admitted
\* requests is alive is answered 429 and the handler does not run (no row, no token,
\* no change of the users table, counter untouched).
C13_RequestStep ==
    \A e \in Emails, pw \in Passwords :
        RateLogin(e, pw) =>
            /\ AdmittedSoFar < LOGIN_MAX_REQUESTS => response'.status \in {200, 401, 403}
            /\ AdmittedSoFar >= LOGIN_MAX_REQUESTS =>
                   /\ response'.status = 429
                   /\ UNCHANGED <<users, refresh_tokens, issued, redis_rate>>

C13_LimitPerWindow == [][C13_RequestStep]_vars

\* ten requests admitted, and a later one inside the same window rejected
C13_Witness ==
    /\ rate_window.admitted = LOGIN_MAX_REQUESTS
    /\ rate_window.last_status = 429
    /\ rate_window.last_at > rate_window.start
    /\ CounterAlive(LoginKey)

\* C14: the counter of a key expires window_seconds after the first admitted
\* request of its window, and a request arriving window_seconds or more after that
\* first request is not rejected.
C14_WindowAnchoredAtFirstRequest ==
    /\ CounterAlive(LoginKey) =>
           redis_rate[LoginKey].expires_at = rate_window.start + LOGIN_WINDOW_SECONDS
    /\ (/\ rate_window.last_start # NoTime
        /\ rate_window.last_at >= rate_window.last_start + LOGIN_WINDOW_SECONDS) =>
           rate_window.last_status # 429

\* C31, the frame of a rejection: a request answered 429 leaves redis_rate, counter
\* and expiry, as it was, and runs no handler.
C31_RejectedStep ==
    \A e \in Emails, pw \in Passwords :
        (RateLogin(e, pw) /\ response'.status = 429) =>
            UNCHANGED <<redis_rate, users, refresh_tokens, issued>>

\* C31, re-admission: the request that follows a rejected one and arrives when the
\* expiry the counter had at the rejection has passed is not answered 429.
C31_ReadmittedStep ==
    \A e \in Emails, pw \in Passwords :
        (/\ RateLogin(e, pw)
         /\ rate_window.last_status = 429
         /\ now >= rate_window.rejected_expires_at) => response'.status # 429

\* while the client was last rejected and that expiry has not passed, the counter
\* is the one the rejection found
C31_BlockNotProlonged ==
    (rate_window.last_status = 429 /\ now < rate_window.rejected_expires_at) =>
        /\ LoginKey \in DOMAIN redis_rate
        /\ redis_rate[LoginKey].expires_at = rate_window.rejected_expires_at
        /\ redis_rate[LoginKey].value = LOGIN_MAX_REQUESTS

\* C31: a request rejected by rate_limit (429) leaves the key's counter and its
\* expiry unchanged, so rejected requests never prolong the block: a client that
\* keeps sending requests is admitted again once the existing counter expires.
C31_RejectionLeavesCounter ==
    /\ [](C31_BlockNotProlonged)
    /\ [][C31_RejectedStep /\ C31_ReadmittedStep]_vars

\* a client whose last request was rejected is admitted by its next request, made
\* after the expiry, and that request opens a new window
C31_Witness ==
    /\ rate_window.readmitted
    /\ rate_window.last_status = 200
    /\ rate_window.admitted = 1
    /\ rate_window.start = rate_window.last_at
    /\ rate_window.start >= LOGIN_WINDOW_SECONDS

(***************************************************************************)
(* rate_limit on the login route, one request per element of Procs served  *)
(* by concurrent workers.  redis_client.get (line 283) and the pipeline    *)
(* incr/expire (lines 291-294) are two Redis round trips; requests of      *)
(* other workers are served between them.                                  *)
(***************************************************************************)
MaxRaceTime == 60             \* clock horizon of the concurrent rate-limit model

\* line 283: current = redis_client.get(key)
RaceRead(p) ==
    /\ rl[p].pc = "idle"
    /\ rl' = [rl EXCEPT ![p] = [pc |-> "check", current |-> redis_get(LoginKey)]]
    /\ UNCHANGED <<session_history, sessions, key_history, api_keys, check_history, rate_limit_storage, hashed, cipher, admin_result, ended, now, users, refresh_tokens, redis_rate, redis_blacklist, pc, req, rotated,
                   overlap, response, login_history, issued, revoke_called, decoded,
                   failed_attempts, lockout_result, streak, cleared, rate_window,
                   verify_result, attempt>>

\* lines 284-296: 429 when the value read reaches max_requests; otherwise the
\* pipeline increments the counter and sets its expiry, and the handler runs
RaceCheck(p, e, pw) ==
    /\ rl[p].pc = "check"
    /\ IF over_limit(rl[p].current, LOGIN_MAX_REQUESTS)
       THEN /\ response' = Response(429, "Too many requests", NoToken, 0)
            /\ redis_rate' = rate_limit_rejected(LoginKey, LOGIN_WINDOW_SECONDS)
            /\ UNCHANGED <<refresh_tokens, issued, users>>
       ELSE /\ redis_rate' = redis_incr_expire(LoginKey, LOGIN_WINDOW_SECONDS)
            /\ login_handler(e, pw)
    /\ rate_window' = record_request(response'.status)
    /\ rl' = [rl EXCEPT ![p] = [pc |-> "idle", current |-> 0]]
    /\ UNCHANGED <<session_history, sessions, key_history, api_keys, check_history, rate_limit_storage, hashed, cipher, admin_result, ended, now, redis_blacklist, pc, req, rotated, overlap, login_history,
                   revoke_called, decoded, failed_attempts, lockout_result, streak, cleared,
                   verify_result, attempt>>

RaceTimeSteps == {LOGIN_WINDOW_SECONDS}

RaceTick(d) ==
    /\ Tick(d, MaxRaceTime)
    /\ UNCHANGED <<session_history, sessions, key_history, api_keys, check_history, rate_limit_storage, hashed, cipher, admin_result, ended, users, refresh_tokens, pc, req, rotated, overlap, response, login_history,
                   issued, revoke_called, decoded, failed_attempts, lockout_result, streak,
                   cleared, rl, rate_window, verify_result, attempt>>

RaceNext ==
    \/ \E p \in Procs : RaceRead(p)
    \/ \E p \in Procs : \E e \in {"a@x"}, pw \in Passwords : RaceCheck(p, e, pw)
    \/ \E d \in RaceTimeSteps : RaceTick(d)

SpecRateRace == Init /\ [][RaceNext]_vars

\* C15: whatever the interleaving of the requests of concurrent workers, no more than
\* max_requests requests have been admitted since the counter of the key was created.
C15_AtMostMaxAdmitted ==
    CounterAlive(LoginKey) => rate_window.admitted <= LOGIN_MAX_REQUESTS

(***************************************************************************)
(* Accounts: register leaves is_active = False and mails a verification    *)
(* token; POST /api/auth/verify-email/{token} activates the account;       *)
(* login and refresh issue token pairs.                                    *)
(***************************************************************************)
MaxAccountTime == 172800      \* clock horizon of the account model (2 days)

\* email_service.send_verification_email: the token mailed for user u at time at
verification_token(u, e, at) ==
    [user_id |-> u, email |-> e, type |-> "email_verification", exp |-> at + SecondsPerDay,
     key |-> SECRET_KEY]

\* email_service.send_password_reset_email: the token mailed for user u at time at
password_reset_token(u, e, at) ==
    [user_id |-> u, email |-> e, type |-> "password_reset",
     exp |-> at + 60 * SecondsPerMinute, key |-> SECRET_KEY]

\* the tokens a verify-email request may carry: the ones mailed at registration
\* (time 0), one for a user id that has no row, a forged one, a password-reset
\* token and the access tokens handed out
VerificationInputs ==
    {verification_token(u, InitUsers[u].email, 0) : u \in UserIds}
        \cup {verification_token("u9", "q@x", 0)}
        \cup {Forged(verification_token("u2", "b@x", 0))}
        \cup {password_reset_token("u2", "b@x", 0)}
        \cup issued

\* UserRepository.activate_user(db, user_id)
activate_user(rows, user_id) == [rows EXCEPT ![user_id].is_active = TRUE]

VerifyResponse(status, detail) == [status |-> status, detail |-> detail]

\* POST /api/auth/verify-email/{token}
verify_email(token) ==
    LET outcome == decode_token(token)
        accepted == /\ outcome = "claims"
                    /\ token.user_id # None
                    /\ token.type = "email_verification"
        user_id == token.user_id
    IN  IF ~accepted
        THEN /\ verify_result' = VerifyResponse(400, "Invalid or expired verification token")
             /\ UNCHANGED users
        ELSE IF user_id \notin UserIds
        THEN /\ verify_result' = VerifyResponse(404, "User not found")
             /\ UNCHANGED users
        ELSE IF users[user_id].is_active
        THEN /\ verify_result' = VerifyResponse(200, "Email already verified")
             /\ UNCHANGED users
        ELSE /\ users' = activate_user(users, user_id)
             /\ verify_result' = VerifyResponse(200, "Email successfully verified")

VerifyEmail(token) ==
    /\ verify_email(token)
    /\ UNCHANGED <<session_history, sessions, key_history, api_keys, check_history, rate_limit_storage, hashed, cipher, admin_result, ended, now, refresh_tokens, redis_rate, redis_blacklist, pc, req, rotated, overlap,
                   response, login_history, issued, revoke_called, decoded, failed_attempts,
                   lockout_result, streak, cleared, rl, rate_window, attempt>>

\* what the users table and the rate limiter hold for a login request (e, pw)
record_login_input(e, pw) ==
    LET user == get_user_by_email(e)
    IN  [email |-> e, password |-> pw, known |-> (user # None),
         active |-> (user # None /\ users[user].is_active),
         password_ok |-> (user # None /\ verify_password(pw, users[user].hashed_password)),
         limited |-> rate_limited(LoginKey, LOGIN_MAX_REQUESTS)]

\* a login request while at most MaxLogins rows have come from logins
AccountLogin(e, pw) ==
    /\ Len(refresh_tokens) < MaxLogins
    /\ login(e, pw)
    /\ attempt' = record_login_input(e, pw)
    /\ UNCHANGED <<session_history, sessions, key_history, api_keys, check_history, rate_limit_storage, hashed, cipher, admin_result, ended, now, redis_blacklist, pc, req, rotated, overlap, login_history,
                   revoke_called, decoded, failed_attempts, lockout_result, streak, cleared,
                   rl, rate_window, verify_result>>

AccountTimeSteps == {SecondsPerDay}

AccountTick(d) ==
    /\ Tick(d, MaxAccountTime)
    /\ UNCHANGED <<session_history, sessions, key_history, api_keys, check_history, rate_limit_storage, hashed, cipher, admin_result, ended, users, refresh_tokens, pc, req, rotated, overlap, response, login_history,
                   issued, revoke_called, decoded, failed_attempts, lockout_result, streak,
                   cleared, rl, rate_window, verify_result, attempt>>

\* the worker that serves the refresh requests of the account model
AccountProcs == {"p1"}

AccountNext ==
    \/ \E u \in UserIds : AccountLogin(users[u].email, users[u].hashed_password)
    \/ \E token \in VerificationInputs : VerifyEmail(token)
    \/ \E p \in AccountProcs : \E c \in 1..Len(refresh_tokens) : RefreshCall(p, c)
    \/ \E p \in AccountProcs : RefreshQuery(p)
    \/ \E p \in AccountProcs : RefreshCheckUser(p)
    \/ \E p \in AccountProcs : RefreshRevoke(p)
    \/ \E p \in AccountProcs : RefreshCreate(p)
    \/ \E p \in AccountProcs : RefreshReturn(p)
    \/ \E d \in AccountTimeSteps : AccountTick(d)

SpecAccount == Init /\ [][AccountNext]_vars

\* C16: every step that adds a refresh-token row or hands out an access token does so
\* for a user whose is_active flag is true at that moment; a login with the correct
\* password of an inactive user issues nothing, and a login with the correct password
\* of an active user (activated by verify-email or not) that the rate limiter admits
\* answers 200 with a refresh token and an access token that did not exist before.
C16_IssueStep ==
    /\ Len(refresh_tokens') > Len(refresh_tokens) =>
           users[refresh_tokens'[Len(refresh_tokens')].user_id].is_active
    /\ \A t \in issued' \ issued : users[t.user_id].is_active
    /\ \A u \in UserIds :
           AccountLogin(users[u].email, users[u].hashed_password) =>
               IF ~users[u].is_active
               THEN /\ response'.status # 200
                    /\ response'.refresh_cookie = NoToken
                    /\ UNCHANGED <<refresh_tokens, issued>>
               ELSE ~rate_limited(LoginKey, LOGIN_MAX_REQUESTS) =>
                        /\ response'.status = 200
                        /\ response'.refresh_cookie = Len(refresh_tokens')
                        /\ response'.refresh_cookie \notin 1..Len(refresh_tokens)
                        /\ refresh_tokens'[response'.refresh_cookie].user_id = u
                        /\ ~refresh_tokens'[response'.refresh_cookie].revoked
                        /\ now < refresh_tokens'[response'.refresh_cookie].expires_at
                        /\ \E t \in issued' \ issued :
                               t.jti = response'.access_jti /\ t.user_id = u

C16_NoPairForInactiveSubject == [][C16_IssueStep]_vars

\* the unverified user has verified the e-mail and then logged in
C16_Witness ==
    /\ verify_result = VerifyResponse(200, "Email successfully verified")
    /\ users["u2"].is_active
    /\ response.status = 200
    /\ response.refresh_cookie \in 1..Len(refresh_tokens)
    /\ refresh_tokens[response.refresh_cookie].user_id = "u2"
    /\ users["u2"].last_login # NoTime

(***************************************************************************)
(* Sessions: login, refresh, logout and reset-password on one store.       *)
(* logout and reset-password end with                                      *)
(* UserRepository.revoke_all_refresh_tokens(db, user_id).                  *)
(***************************************************************************)
MaxSessionTime == 86400       \* clock horizon of the session model (1 day)

\* AuthHandler.get_current_user: the user id of the bearer token, None for the 401s
get_current_user(token) ==
    IF decode_token(token) # "claims" THEN None
    ELSE IF token.user_id = None THEN None
    ELSE IF token.user_id \notin UserIds THEN None
    ELSE IF ~users[token.user_id].is_active THEN None
    ELSE token.user_id

\* UserRepository.revoke_all_refresh_tokens(db, user_id)
revoke_all_refresh_tokens(rows, user_id) ==
    [i \in 1..Len(rows) |->
        IF rows[i].user_id = user_id /\ ~rows[i].revoked
        THEN [rows[i] EXCEPT !.revoked = TRUE, !.revoked_at = now]
        ELSE rows[i]]

\* UserRepository.update_password(db, user_id, hashed_password)
update_password(rows, user_id, hashed_password) ==
    IF user_id \in UserIds
    THEN [rows EXCEPT ![user_id].hashed_password = hashed_password]
    ELSE rows

\* the refresh tokens user_id holds at this moment
tokens_of(user_id) == {i \in 1..Len(refresh_tokens) : refresh_tokens[i].user_id = user_id}

\* the route answers without calling revoke_all_refresh_tokens
logout_keeps_tokens(token) == UNCHANGED refresh_tokens

\* POST /api/auth/logout with the bearer token
logout(token) ==
    LET current_user == get_current_user(token)
    IN  IF current_user = None
        THEN UNCHANGED refresh_tokens
        ELSE refresh_tokens' = revoke_all_refresh_tokens(refresh_tokens, current_user)

\* the acceptance test of reset_password without the test of the type claim
reset_accepted_any_type(token) ==
    /\ decode_token(token) = "claims"
    /\ token.user_id # None

\* reset_password accepts token: it decodes, names a user and is of type
\* "password_reset" (auth_routes.py lines 314-326)
reset_accepted(token) ==
    /\ decode_token(token) = "claims"
    /\ token.user_id # None
    /\ token.type = "password_reset"

\* POST /api/auth/reset-password with reset_data.token = token,
\* reset_data.new_password = new_password
reset_password(token, new_password) ==
    IF ~reset_accepted(token)
    THEN UNCHANGED <<users, refresh_tokens>>
    ELSE /\ users' = update_password(users, token.user_id, new_password)
         /\ refresh_tokens' = revoke_all_refresh_tokens(refresh_tokens, token.user_id)

Logout(token) ==
    /\ logout(token)
    /\ ended' = IF get_current_user(token) = None THEN ended
                ELSE ended \cup tokens_of(get_current_user(token))
    /\ UNCHANGED <<session_history, sessions, key_history, api_keys, check_history, rate_limit_storage, hashed, cipher, admin_result, now, users, redis_rate, redis_blacklist, pc, req, rotated, overlap,
                   response, login_history, issued, revoke_called, decoded, failed_attempts,
                   lockout_result, streak, cleared, rl, rate_window, verify_result, attempt>>

ResetPassword(token, new_password) ==
    /\ reset_password(token, new_password)
    /\ ended' = IF reset_accepted(token) THEN ended \cup tokens_of(token.user_id) ELSE ended
    /\ UNCHANGED <<session_history, sessions, key_history, api_keys, check_history, rate_limit_storage, hashed, cipher, admin_result, now, redis_rate, redis_blacklist, pc, req, rotated, overlap, response,
                   login_history, issued, revoke_called, decoded, failed_attempts,
                   lockout_result, streak, cleared, rl, rate_window, verify_result, attempt>>

\* the reset tokens a request may carry: mailed at time 0 or just now, for a user
\* row or for an id without a row, forged, or a verification token
ResetInputs ==
    {password_reset_token("u1", "a@x", at) : at \in {0, now}}
        \cup {password_reset_token("u9", "q@x", now)}
        \cup {Forged(password_reset_token("u1", "a@x", now))}
        \cup {verification_token("u1", "a@x", now)}

SessionLogin(e, pw) ==
    /\ Len(refresh_tokens) < MaxLogins
    /\ login(e, pw)
    /\ UNCHANGED <<session_history, sessions, key_history, api_keys, check_history, rate_limit_storage, hashed, cipher, admin_result, ended, now, redis_blacklist, pc, req, rotated, overlap, login_history,
                   revoke_called, decoded, failed_attempts, lockout_result, streak, cleared,
                   rl, rate_window, verify_result, attempt>>

\* a login request whose create_token_pair raises at db.commit() (line 104 of
\* auth_handler.py): the exception leaves the route before set_cookie and
\* update_last_login, the client gets a 500 without tokens
SessionLoginFail(e, pw) ==
    /\ Len(refresh_tokens) < MaxLogins
    /\ ~rate_limited(LoginKey, LOGIN_MAX_REQUESTS)
    /\ handler_response(e, pw).status = 200
    /\ redis_rate' = redis_incr_expire(LoginKey, LOGIN_WINDOW_SECONDS)
    /\ response' = Response(500, "Internal Server Error", NoToken, 0)
    /\ UNCHANGED <<session_history, sessions, key_history, api_keys, check_history, rate_limit_storage, hashed, cipher, admin_result, ended, now, users, refresh_tokens, issued, redis_blacklist, pc, req, rotated,
                   overlap, login_history, revoke_called, decoded, failed_attempts,
                   lockout_result, streak, cleared, rl, rate_window, verify_result, attempt>>

SessionTimeSteps == {SecondsPerDay}

SessionTick(d) ==
    /\ Tick(d, MaxSessionTime)
    /\ UNCHANGED <<session_history, sessions, key_history, api_keys, check_history, rate_limit_storage, hashed, cipher, admin_result, ended, users, refresh_tokens, pc, req, rotated, overlap, response, login_history,
                   issued, revoke_called, decoded, failed_attempts, lockout_result, streak,
                   cleared, rl, rate_window, verify_result, attempt>>

SessionNext ==
    \/ \E e \in {"a@x"}, pw \in Passwords : SessionLogin(e, pw)
    \/ \E e \in {"a@x"}, pw \in Passwords : SessionLoginFail(e, pw)
    \/ \E p \in AccountProcs : \E c \in 1..Len(refresh_tokens) : RefreshCall(p, c)
    \/ \E p \in AccountProcs : RefreshQuery(p)
    \/ \E p \in AccountProcs : RefreshCheckUser(p)
    \/ \E p \in AccountProcs : RefreshRevoke(p)
    \/ \E p \in AccountProcs : RefreshCreate(p)
    \/ \E p \in AccountProcs : RefreshCreateFail(p)
    \/ \E p \in AccountProcs : RefreshReturn(p)
    \/ \E token \in Presentable : Logout(token)
    \/ \E token \in ResetInputs, new_password \in Passwords : ResetPassword(token, new_password)
    \/ \E d \in SessionTimeSteps : SessionTick(d)

SpecSession == Init /\ [][SessionNext]_vars

\* row R is persisted and Active after the step
PersistedActiveAfter(R) ==
    /\ R \in 1..Len(refresh_tokens')
    /\ refresh_tokens'[R].token = R
    /\ ~refresh_tokens'[R].revoked
    /\ now < refresh_tokens'[R].expires_at

\* C19: a step that hands a refresh token to a caller (the login response or the
\* result of refresh_access_token) leaves a persisted, Active row for that token and
\* hands out an access token with it; a step that stores no row hands out no access
\* token, and a call whose commit fails ends with an error and carries no token.
C19_PairStep ==
    /\ (response' # response /\ response'.refresh_cookie # NoToken) =>
           /\ PersistedActiveAfter(response'.refresh_cookie)
           /\ \E t \in issued' \ issued : t.jti = response'.access_jti
    /\ \A p \in Procs :
           (req'[p] # req[p] /\ req'[p].new_refresh # NoToken) =>
               /\ PersistedActiveAfter(req'[p].new_refresh)
               /\ req'[p].result = "pair"
               /\ issued' # issued
    /\ Len(refresh_tokens') = Len(refresh_tokens) => issued' = issued
    /\ \A p \in Procs :
           RefreshCreateFail(p) =>
               /\ req'[p].result = "StorageError"
               /\ req'[p].new_refresh = NoToken
    /\ \A e \in Emails, pw \in Passwords :
           SessionLoginFail(e, pw) =>
               /\ response'.status = 500
               /\ response'.refresh_cookie = NoToken
               /\ response'.access_jti = NoJti

C19_NoPartialSuccess == [][C19_PairStep]_vars

\* a login returned a pair, and a later refresh failed at the commit of its new row
C19_Witness ==
    /\ response.status = 200
    /\ response.refresh_cookie \in 1..Len(refresh_tokens)
    /\ \E p \in AccountProcs :
           /\ req[p].result = "StorageError"
           /\ req[p].new_refresh = NoToken
           /\ Cardinality(issued) = Len(refresh_tokens)

\* C20: a row whose revoked flag is true stays in the store with the flag true in
\* every later state, whatever login, refresh, logout or reset-password does, and a
\* lookup of a revoked token by refresh_access_token ends with
\* InvalidOrExpiredRefreshToken also when now < expires_at.
C20_RevokedStep ==
    /\ \A i \in 1..Len(refresh_tokens) :
           refresh_tokens[i].revoked =>
               /\ i \in 1..Len(refresh_tokens')
               /\ refresh_tokens'[i].revoked
               /\ refresh_tokens'[i].token = refresh_tokens[i].token
    /\ \A p \in Procs :
           (/\ RefreshQuery(p)
            /\ req[p].cookie \in 1..Len(refresh_tokens)
            /\ refresh_tokens[req[p].cookie].revoked) =>
               /\ req'[p].result = "InvalidOrExpiredRefreshToken"
               /\ pc'[p] = "done"

C20_RevokedIsPermanent == [][C20_RevokedStep]_vars

\* a token revoked by logout or reset-password (not by rotation) has been presented
\* before its expiry and was rejected
C20_Witness ==
    \E p \in AccountProcs :
        /\ req[p].result = "InvalidOrExpiredRefreshToken"
        /\ req[p].cookie \in 1..Len(refresh_tokens)
        /\ req[p].cookie \notin rotated
        /\ refresh_tokens[req[p].cookie].revoked
        /\ now < refresh_tokens[req[p].cookie].expires_at

\* C21: once a logout by user U, or an accepted reset-password for U, has completed,
\* every refresh token U held at that moment is revoked, and every
\* refresh_access_token call made with such a token from then on ends with
\* InvalidOrExpiredRefreshToken at its lookup and returns no pair.
C21_EndedTokensFail ==
    /\ \A i \in ended : i \in 1..Len(refresh_tokens) /\ refresh_tokens[i].revoked
    /\ \A p \in Procs :
           req[p].ended_at_call =>
               /\ pc[p] \in {"query", "done"}
               /\ pc[p] = "done" =>
                      /\ req[p].result = "InvalidOrExpiredRefreshToken"
                      /\ req[p].new_refresh = NoToken

\* a token that was never rotated and is not expired, presented after the logout or
\* reset-password of its user, has been rejected
C21_Witness ==
    \E p \in AccountProcs :
        /\ req[p].ended_at_call
        /\ pc[p] = "done"
        /\ req[p].result = "InvalidOrExpiredRefreshToken"
        /\ req[p].cookie \notin rotated
        /\ now < refresh_tokens[req[p].cookie].expires_at

\* C22: a reset-password request that succeeds with token T consumes T: from the state
\* it leaves, a reset-password request presenting the same T is not accepted (and so
\* cannot change the stored hash), although T has not expired.
C22_ResetStep ==
    \A token \in ResetInputs, new_password \in Passwords :
        (ResetPassword(token, new_password) /\ reset_accepted(token)) =>
            ~(reset_accepted(token))'

C22_ResetTokenIsSingleUse == [][C22_ResetStep]_vars

\* C23: a logout request authenticated by access token A leaves a blacklist entry
\* for A's jti, so that decode_token rejects A in the state the logout leaves (A has
\* not expired: it has just been accepted).
C23_LogoutStep ==
    \A token \in Presentable :
        (Logout(token) /\ get_current_user(token) # None) =>
            /\ (blacklisted(token.jti))'
            /\ (decode_token(token))' # "claims"

C23_LogoutBlacklistsAccessToken == [][C23_LogoutStep]_vars

(***************************************************************************)
(* logout against a refresh request in flight: login, the steps of         *)
(* refresh_access_token, logout and the clock, with no other writer of the *)
(* refresh-token table.                                                    *)
(***************************************************************************)
LogoutRaceNext ==
    \/ \E e \in {"a@x"}, pw \in {"pw1"} : SessionLogin(e, pw)
    \/ \E p \in AccountProcs : \E c \in 1..Len(refresh_tokens) : RefreshCall(p, c)
    \/ \E p \in AccountProcs : RefreshQuery(p)
    \/ \E p \in AccountProcs : RefreshCheckUser(p)
    \/ \E p \in AccountProcs : RefreshRevoke(p)
    \/ \E p \in AccountProcs : RefreshCreate(p)
    \/ \E p \in AccountProcs : RefreshReturn(p)
    \/ \E token \in Presentable : Logout(token)
    \/ \E d \in SessionTimeSteps : SessionTick(d)

SpecLogoutRace == Init /\ [][LogoutRaceNext]_vars

\* C33: for every interleaving of a logout by user U with a refresh_access_token on
\* one of U's refresh tokens, once both have finished the rotation has left no Active
\* refresh token behind: when the request is done and a logout has covered the token
\* it presented, the refresh token it returned, if any, is revoked.
C33_NoActiveTokenBehindLogout ==
    \A p \in AccountProcs :
        (/\ pc[p] = "done"
         /\ req[p].cookie \in ended
         /\ req[p].new_refresh # NoToken) => refresh_tokens[req[p].new_refresh].revoked


(***************************************************************************)
(* Token classes: access tokens, e-mail verification tokens and password   *)
(* reset tokens are all signed with settings.SECRET_KEY; each of them is   *)
(* presented to logout (a route behind get_current_user), to verify-email  *)
(* and to reset-password.                                                  *)
(***************************************************************************)
\* the tokens a request may carry: the access tokens handed out, the tokens mailed at
\* time 0 and just now, and a copy of each signed with another key
ClassTokens ==
    issued
        \cup {verification_token(u, InitUsers[u].email, 0) : u \in UserIds}
        \cup {password_reset_token(u, InitUsers[u].email, at) : u \in UserIds, at \in {0, now}}

ClassInputs == ClassTokens \cup {Forged(t) : t \in ClassTokens}

\* signed with the server's key and not past its exp
ValidNow(token) == token.key = SECRET_KEY /\ ~(token.exp < now)

ClassNext ==
    \/ \E e \in {"a@x"}, pw \in {"pw1"} : SessionLogin(e, pw)
    \/ \E token \in ClassInputs : Logout(token)
    \/ \E token \in ClassInputs : VerifyEmail(token)
    \/ \E token \in ClassInputs, new_password \in {"pw2"} : ResetPassword(token, new_password)
    \/ \E d \in AccountTimeSteps : AccountTick(d)

SpecTokenClass == Init /\ [][ClassNext]_vars

\* C34: get_current_user accepts a token as proof of identity only if its type claim
\* is "access": no e-mail verification or password reset token, however valid, is
\* accepted by a protected endpoint (here logout).
C34_LogoutStep ==
    \A token \in ClassInputs :
        (Logout(token) /\ get_current_user(token) # None) => token.type = "access"

C34_OnlyAccessTokensAuthenticate == [][C34_LogoutStep]_vars

\* C35, reset-password: users and refresh tokens change only for a token that is
\* validly signed, unexpired and of type "password_reset".
C35_ResetStep ==
    \A token \in ClassInputs, new_password \in Passwords :
        ResetPassword(token, new_password) =>
            \/ ValidNow(token) /\ token.type = "password_reset"
            \/ UNCHANGED <<users, refresh_tokens>>

\* C35, verify-email: a user is activated only for a validly signed, unexpired token
\* of type "email_verification"; every other token is answered 400 and changes no
\* user field.
C35_VerifyStep ==
    \A token \in ClassInputs :
        VerifyEmail(token) =>
            \/ ValidNow(token) /\ token.type = "email_verification"
            \/ /\ UNCHANGED users
               /\ verify_result'.status = 400

\* C35: reset-password changes a password only when the presented token is validly
\* signed, unexpired and of type "password_reset", and verify-email activates a user
\* only for a token of type "email_verification"; an access token, or a token of the
\* other class, is rejected by both and changes no user field.
C35_TokenClassIsEnforced == [][C35_ResetStep /\ C35_VerifyStep]_vars

\* a reset token has changed u1's password, a verification token has activated u2,
\* and the last verify-email request was refused
C35_Witness ==
    /\ users["u1"].hashed_password = "pw2"
    /\ users["u2"].is_active
    /\ verify_result.status = 400
    /\ issued # {}

(***************************************************************************)
(* The login route for every kind of credentials: unknown email, wrong     *)
(* password, inactive account, accepted.  attempt records the input of the *)
(* last request and what the users table and the rate limiter held for it. *)
(***************************************************************************)
MaxCredentialTime == 86400    \* clock horizon of the credentials model (1 day)

CredentialLogin(e, pw) ==
    /\ login(e, pw)
    /\ attempt' = record_login_input(e, pw)
    /\ UNCHANGED <<session_history, sessions, key_history, api_keys, check_history, rate_limit_storage, hashed, cipher, admin_result, ended, now, redis_blacklist, pc, req, rotated, overlap, login_history,
                   revoke_called, decoded, failed_attempts, lockout_result, streak, cleared,
                   rl, rate_window, verify_result>>

CredentialTick(d) ==
    /\ Tick(d, MaxCredentialTime)
    /\ UNCHANGED <<session_history, sessions, key_history, api_keys, check_history, rate_limit_storage, hashed, cipher, admin_result, ended, users, refresh_tokens, pc, req, rotated, overlap, response, login_history,
                   issued, revoke_called, decoded, failed_attempts, lockout_result, streak,
                   cleared, rl, rate_window, verify_result, attempt>>

CredentialNext ==
    \/ \E e \in Emails, pw \in Passwords : CredentialLogin(e, pw)
    \/ \E token \in VerificationInputs : VerifyEmail(token)
    \/ \E d \in AccountTimeSteps : CredentialTick(d)

SpecCredentials == Init /\ [][CredentialNext]_vars

\* e is the email of a user row
Known(e) == get_user_by_email(e) # None

\* pw is not the password of the user row of e
WrongPassword(e, pw) ==
    Known(e) /\ ~verify_password(pw, users[get_user_by_email(e)].hashed_password)

\* e is the email of a user row that is not active
Inactive(e) == Known(e) /\ ~users[get_user_by_email(e)].is_active

\* C17 as stated: every login attempt (admitted by the rate limiter) for the email of
\* an inactive user is answered 403 AccountInactive, whatever the password.
C17_InactiveLoginIsAccountInactive ==
    (attempt.known /\ ~attempt.active /\ ~attempt.limited) => response.status = 403

\* C17, amended: a login attempt admitted by the rate limiter that carries the email
\* of an inactive user and that user's password is answered 403 "Account not
\* activated", not the 401 of invalid credentials; it issues nothing and leaves
\* the lockout records as they were.
C17_InactiveStep ==
    \A e \in Emails, pw \in Passwords :
        (/\ CredentialLogin(e, pw)
         /\ Inactive(e) /\ ~WrongPassword(e, pw)
         /\ ~rate_limited(LoginKey, LOGIN_MAX_REQUESTS)) =>
            /\ response'.status = 403
            /\ response'.detail = "Account not activated"
            /\ response'.status # 401
            /\ response'.refresh_cookie = NoToken
            /\ UNCHANGED <<failed_attempts, refresh_tokens, issued, users>>

C17_InactiveWithPasswordIsAccountInactive == [][C17_InactiveStep]_vars

C17_Witness ==
    /\ attempt.known /\ ~attempt.active /\ attempt.password_ok /\ ~attempt.limited
    /\ response.status = 403
    /\ failed_attempts = <<>>

\* C18: in every state, a login request with an unknown email and a login request
\* with a known email and a wrong password get the same answer from the body of the
\* route (status, detail, no cookie, no token), and such a request changes neither
\* the users table nor the token stores.
C18_SameAnswer ==
    \A e1 \in Emails, e2 \in Emails, pw1 \in Passwords, pw2 \in Passwords :
        (~Known(e1) /\ WrongPassword(e2, pw2)) =>
            /\ handler_response(e1, pw1) = handler_response(e2, pw2)
            /\ handler_response(e1, pw1).status = 401
            /\ handler_response(e1, pw1).refresh_cookie = NoToken
            /\ handler_response(e1, pw1).access_jti = NoJti

C18_FailedStep ==
    \A e \in Emails, pw \in Passwords :
        (CredentialLogin(e, pw) /\ (~Known(e) \/ WrongPassword(e, pw))) =>
            /\ response' = IF rate_limited(LoginKey, LOGIN_MAX_REQUESTS)
                           THEN Response(429, "Too many requests", NoToken, 0)
                           ELSE Response(401, "Invalid email or password", NoToken, 0)
            /\ UNCHANGED <<users, refresh_tokens, issued>>

C18_NoUserEnumeration == [](C18_SameAnswer) /\ [][C18_FailedStep]_vars

\* a wrong password for the email of an active user has been answered 401
C18_Witness ==
    /\ attempt.known /\ attempt.active /\ ~attempt.password_ok /\ ~attempt.limited
    /\ response = Response(401, "Invalid email or password", NoToken, NoJti)
    /\ \E e \in Emails : ~Known(e)

(***************************************************************************)
(* Admin endpoints: GET /api/auth/users and PUT /api/auth/users/{id}/roles *)
(* behind Depends(auth_handler.require_roles(["admin"])).  role_checker    *)
(* depends on the bound method self.get_current_active_user, whose         *)
(* parameter current_user is declared, inside the class body, as           *)
(* Depends(get_current_user): the plain function, not a bound method.      *)
(* FastAPI resolves the function's parameter self like any parameter       *)
(* without annotation or default, as a required query parameter.           *)
(***************************************************************************)
MaxAdminTime == 1800          \* clock horizon of the admin model

NoSelf == "absent"            \* the request carries no query parameter self

DependencyResult(status, detail, user) == [status |-> status, detail |-> detail, user |-> user]

\* Depends(get_current_user) as FastAPI solves it for a request with bearer token
\* token and query parameter self = self_param: without the parameter the request
\* fails validation (422); with it, self is a str and self.decode_token (line 221)
\* raises AttributeError, a 500
unbound_get_current_user(self_param, token) ==
    IF self_param = NoSelf
    THEN DependencyResult(422, "field required: query self", None)
    ELSE DependencyResult(500, "Internal Server Error", None)

\* AuthHandler.get_current_active_user on the user its dependency returned
get_current_active_user(current) ==
    IF current.status # 200 THEN current
    ELSE IF ~users[current.user].is_active THEN DependencyResult(400, "Inactive user", None)
    ELSE current

\* role_checker of require_roles(required_roles)
role_checker(required_roles, current) ==
    IF current.status # 200 THEN current
    ELSE IF users[current.user].roles \cap required_roles = {}
    THEN DependencyResult(403, "Insufficient permissions", None)
    ELSE current

\* Depends(auth_handler.require_roles(["admin"])) for one request
require_roles(required_roles, self_param, token) ==
    role_checker(required_roles,
                 get_current_active_user(unbound_get_current_user(self_param, token)))

\* UserRepository.update_roles(db, user_id, roles)
update_roles(rows, user_id, roles) == [rows EXCEPT ![user_id].roles = roles]

AdminResponse(op, status, detail, ran) ==
    [op |-> op, status |-> status, detail |-> detail, handler_ran |-> ran]

\* PUT /api/auth/users/{user_id}/roles
update_user_roles(self_param, token, user_id, roles) ==
    LET current == require_roles({"admin"}, self_param, token)
    IN  IF current.status # 200
        THEN /\ admin_result' = AdminResponse("update_user_roles", current.status,
                                              current.detail, FALSE)
             /\ UNCHANGED users
        ELSE IF user_id \notin UserIds
        THEN /\ admin_result' = AdminResponse("update_user_roles", 404, "User not found", TRUE)
             /\ UNCHANGED users
        ELSE /\ users' = update_roles(users, user_id, roles)
             /\ admin_result' = AdminResponse("update_user_roles", 200,
                                              "Roles updated successfully", TRUE)

\* GET /api/auth/users
list_users(self_param, token) ==
    LET current == require_roles({"admin"}, self_param, token)
    IN  IF current.status # 200
        THEN admin_result' = AdminResponse("list_users", current.status, current.detail, FALSE)
        ELSE admin_result' = AdminResponse("list_users", 200, "ok", TRUE)

UpdateUserRoles(self_param, token, user_id, roles) ==
    /\ update_user_roles(self_param, token, user_id, roles)
    /\ UNCHANGED <<session_history, sessions, key_history, api_keys, check_history, rate_limit_storage, hashed, cipher, now, refresh_tokens, redis_rate, redis_blacklist, pc, req, rotated, overlap,
                   response, login_history, issued, revoke_called, decoded, failed_attempts,
                   lockout_result, streak, cleared, rl, rate_window, verify_result, attempt,
                   ended>>

ListUsers(self_param, token) ==
    /\ list_users(self_param, token)
    /\ UNCHANGED <<session_history, sessions, key_history, api_keys, check_history, rate_limit_storage, hashed, cipher, now, users, refresh_tokens, redis_rate, redis_blacklist, pc, req, rotated,
                   overlap, response, login_history, issued, revoke_called, decoded,
                   failed_attempts, lockout_result, streak, cleared, rl, rate_window,
                   verify_result, attempt, ended>>

AdminLogin(e, pw) ==
    /\ login(e, pw)
    /\ UNCHANGED <<session_history, sessions, key_history, api_keys, check_history, rate_limit_storage, hashed, cipher, now, redis_blacklist, pc, req, rotated, overlap, login_history,
                   revoke_called, decoded, failed_attempts, lockout_result, streak, cleared,
                   rl, rate_window, verify_result, attempt, ended, admin_result>>

AdminTimeSteps == {900}

AdminTick(d) ==
    /\ Tick(d, MaxAdminTime)
    /\ UNCHANGED <<session_history, sessions, key_history, api_keys, check_history, rate_limit_storage, hashed, cipher, users, refresh_tokens, pc, req, rotated, overlap, response, login_history,
                   issued, revoke_called, decoded, failed_attempts, lockout_result, streak,
                   cleared, rl, rate_window, verify_result, attempt, ended, admin_result>>

SelfParams == {NoSelf, "x"}
RoleSets == {{"user"}, {"user", "admin"}}

AdminNext ==
    \/ \E e \in {"a@x"}, pw \in Passwords : AdminLogin(e, pw)
    \/ \E sp \in SelfParams, token \in Presentable, u \in UserIds \cup {"u9"}, roles \in RoleSets :
           UpdateUserRoles(sp, token, u, roles)
    \/ \E sp \in SelfParams, token \in Presentable : ListUsers(sp, token)
    \/ \E d \in AdminTimeSteps : AdminTick(d)

SpecAdmin == Init /\ [][AdminNext]_vars

\* C26: an admin endpoint runs its handler only for a request whose access token is
\* valid and belongs to an active user with the role admin; a request authenticated
\* as any other active user is answered 403 and changes no role.
C26_AdminStep ==
    \A sp \in SelfParams, token \in Presentable, u \in UserIds \cup {"u9"}, roles \in RoleSets :
        (UpdateUserRoles(sp, token, u, roles) \/ ListUsers(sp, token)) =>
            LET caller == get_current_user(token)
                is_admin == caller # None /\ "admin" \in users[caller].roles
            IN  /\ admin_result'.handler_ran => is_admin
                /\ ~is_admin => users' = users
                /\ (caller # None /\ ~is_admin) => admin_result'.status = 403

C26_AdminOnly == [][C26_AdminStep]_vars

(***************************************************************************)
(* The stored user record against the claims of an access token.  The      *)
(* roles and the is_active flag of a row change through the users table    *)
(* (UserRepository.update_roles, the default admin of main.py, an account  *)
(* switched off) while access tokens issued earlier are still alive.       *)
(***************************************************************************)
\* the row of user_id gets new roles and a new is_active value
StoredRecordWrite(user_id, roles, is_active) ==
    /\ users' = [update_roles(users, user_id, roles) EXCEPT ![user_id].is_active = is_active]
    /\ UNCHANGED <<session_history, sessions, key_history, api_keys, check_history, rate_limit_storage, hashed, cipher, now, refresh_tokens,
                   redis_rate, redis_blacklist, pc, req, rotated, overlap, response,
                   login_history, issued, revoke_called, decoded, failed_attempts,
                   lockout_result, streak, cleared, rl, rate_window, verify_result, attempt,
                   ended, admin_result>>

StoredRecordNext ==
    \/ \E e \in {"a@x"}, pw \in {"pw1"} : SessionLogin(e, pw)
    \/ \E roles \in RoleSets, is_active \in BOOLEAN : StoredRecordWrite("u1", roles, is_active)
    \/ \E sp \in SelfParams, token \in issued, roles \in RoleSets :
           UpdateUserRoles(sp, token, "u2", roles)
    \/ \E sp \in SelfParams, token \in issued : ListUsers(sp, token)
    \/ \E d \in AdminTimeSteps : AdminTick(d)

SpecStoredRecord == Init /\ [][StoredRecordNext]_vars

\* C38: a request to an admin endpoint made with an unexpired access token is judged
\* by the roles and the is_active value its user's row holds at that moment, not by
\* the claims the token was issued with: the handler runs exactly when the row is
\* active and carries the role admin.
C38_AdminRequestStep ==
    \A sp \in SelfParams, token \in issued, roles \in RoleSets :
        ((UpdateUserRoles(sp, token, "u2", roles) \/ ListUsers(sp, token))
             /\ decode_token(token) = "claims") =>
            (admin_result'.handler_ran
                 <=> (/\ users[token.user_id].is_active
                      /\ "admin" \in users[token.user_id].roles))

C38_JudgedByStoredRecord == [][C38_AdminRequestStep]_vars

(***************************************************************************)
(* Secrets at rest.  A str is a sequence of code points, bytes are a       *)
(* sequence of values 0..255.                                              *)
(*   SecurityManager.encrypt_api_key / decrypt_api_key (utils/security.py) *)
(*   SecurityService.encrypt_data / decrypt_data (services/security.py)    *)
(***************************************************************************)
MaxSecretLen == 3             \* longest plaintext
MaxStoredLen == 4             \* longest stored string handed to decrypt_api_key

Strings(alphabet, n) == UNION {[1..k -> alphabet] : k \in 0..n}

\* str.encode(): UTF-8 of code points below 2048
RECURSIVE utf8_encode(_)
utf8_encode(s) ==
    IF s = <<>> THEN <<>>
    ELSE (IF s[1] < 128 THEN <<s[1]>> ELSE <<192 + (s[1] \div 64), 128 + (s[1] % 64)>>)
             \o utf8_encode(Tail(s))

\* bytes.decode(): the str, or ok = FALSE for UnicodeDecodeError
RECURSIVE utf8_decode(_)
utf8_decode(b) ==
    IF b = <<>> THEN [ok |-> TRUE, str |-> <<>>]
    ELSE IF b[1] < 128
    THEN LET rest == utf8_decode(Tail(b))
         IN  [ok |-> rest.ok, str |-> <<b[1]>> \o rest.str]
    ELSE IF b[1] \in 194..223 /\ Len(b) >= 2 /\ b[2] \in 128..191
    THEN LET rest == utf8_decode(Tail(Tail(b)))
         IN  [ok |-> rest.ok, str |-> <<(b[1] - 192) * 64 + (b[2] - 128)>> \o rest.str]
    ELSE [ok |-> FALSE, str |-> <<>>]

\* the character of a 6-bit value in the standard and in the URL-safe alphabet
b64_char(i, c62, c63) ==
    IF i < 26 THEN 65 + i
    ELSE IF i < 52 THEN 71 + i
    ELSE IF i < 62 THEN i - 4
    ELSE IF i = 62 THEN c62 ELSE c63

\* the 6-bit value of a character, 0 - 1 for a character outside the alphabet
b64_index(c, c62, c63) ==
    IF c \in 65..90 THEN c - 65
    ELSE IF c \in 97..122 THEN c - 71
    ELSE IF c \in 48..57 THEN c + 4
    ELSE IF c = c62 THEN 62
    ELSE IF c = c63 THEN 63
    ELSE 0 - 1

RECURSIVE encode_groups(_, _, _)
encode_groups(b, c62, c63) ==
    IF b = <<>> THEN <<>>
    ELSE IF Len(b) = 1
    THEN <<b64_char(b[1] \div 4, c62, c63), b64_char((b[1] % 4) * 16, c62, c63), 61, 61>>
    ELSE IF Len(b) = 2
    THEN <<b64_char(b[1] \div 4, c62, c63),
           b64_char((b[1] % 4) * 16 + (b[2] \div 16), c62, c63),
           b64_char((b[2] % 16) * 4, c62, c63), 61>>
    ELSE <<b64_char(b[1] \div 4, c62, c63),
           b64_char((b[1] % 4) * 16 + (b[2] \div 16), c62, c63),
           b64_char((b[2] % 16) * 4 + (b[3] \div 64), c62, c63),
           b64_char(b[3] % 64, c62, c63)>>
             \o encode_groups(SubSeq(b, 4, Len(b)), c62, c63)

\* the bytes of 4-character groups ("=", 61, pads the last one); ok = FALSE for
\* binascii.Error.  Characters
\* outside the alphabet are an error here; the library drops them, which yields
\* bytes whose encoding is not the input either
RECURSIVE decode_groups(_, _, _)
decode_groups(s, c62, c63) ==
    IF s = <<>> THEN [ok |-> TRUE, bytes |-> <<>>]
    ELSE IF Len(s) < 4 THEN [ok |-> FALSE, bytes |-> <<>>]
    ELSE LET i1 == b64_index(s[1], c62, c63)
             i2 == b64_index(s[2], c62, c63)
             i3 == b64_index(s[3], c62, c63)
             i4 == b64_index(s[4], c62, c63)
             last == Len(s) = 4
         IN  IF i1 < 0 \/ i2 < 0 THEN [ok |-> FALSE, bytes |-> <<>>]
             ELSE IF last /\ s[3] = 61 /\ s[4] = 61
             THEN [ok |-> TRUE, bytes |-> <<i1 * 4 + (i2 \div 16)>>]
             ELSE IF i3 < 0 THEN [ok |-> FALSE, bytes |-> <<>>]
             ELSE IF last /\ s[4] = 61
             THEN [ok |-> TRUE, bytes |-> <<i1 * 4 + (i2 \div 16), (i2 % 16) * 16 + (i3 \div 4)>>]
             ELSE IF i4 < 0 THEN [ok |-> FALSE, bytes |-> <<>>]
             ELSE LET rest == decode_groups(SubSeq(s, 5, Len(s)), c62, c63)
                  IN  [ok |-> rest.ok,
                       bytes |-> <<i1 * 4 + (i2 \div 16), (i2 % 16) * 16 + (i3 \div 4),
                                   (i3 % 4) * 64 + i4>> \o rest.bytes]

\* base64.b64encode / b64decode ("+", "/") and urlsafe_b64encode / urlsafe_b64decode
\* ("-", "_")
b64encode(b) == encode_groups(b, 43, 47)
b64decode(s) == decode_groups(s, 43, 47)
urlsafe_b64encode(b) == encode_groups(b, 45, 95)
urlsafe_b64decode(s) == decode_groups(s, 45, 95)

\* the encoding written with the URL-safe alphabet, which decrypt_api_key does not read
encrypt_api_key_urlsafe(api_key) ==
    IF api_key = <<>> THEN <<>> ELSE urlsafe_b64encode(utf8_encode(api_key))

\* SecurityManager.encrypt_api_key
encrypt_api_key(api_key) ==
    IF api_key = <<>> THEN <<>> ELSE b64encode(utf8_encode(api_key))

\* SecurityManager._is_base64
is_base64(s) ==
    LET d == b64decode(s)
    IN  d.ok /\ b64encode(d.bytes) = s

\* SecurityManager.decrypt_api_key: "" is what it returns for a failure
decrypt_api_key(encoded_key) ==
    IF encoded_key = <<>> THEN <<>>
    ELSE IF ~is_base64(encoded_key) THEN encoded_key
    ELSE LET text == utf8_decode(b64decode(encoded_key).bytes)
         IN  IF text.ok THEN text.str ELSE <<>>

(***************************************************************************)
(* Fernet, reduced to what the callers rely on: a token carries the       *)
(* version byte 128, an IV, the data transformed under key and IV, and a   *)
(* tag over all of it that only the key reproduces; the token itself is    *)
(* URL-safe base64.  The IV is drawn by the library for every call.        *)
(***************************************************************************)
master_key == 7               \* SecurityService.master_key, fixed for the process
Ivs == {0, 201}

RECURSIVE byte_sum(_)
byte_sum(b) == IF b = <<>> THEN 0 ELSE b[1] + byte_sum(Tail(b))

fernet_tag(key, body) == (key * 31 + byte_sum(body) + Len(body)) % 256

\* Fernet(key).encrypt(data) with the IV it drew
fernet_encrypt(key, iv, data) ==
    LET body == <<128, iv>> \o [i \in 1..Len(data) |-> (data[i] + key + iv) % 256]
    IN  urlsafe_b64encode(body \o <<fernet_tag(key, body)>>)

\* Fernet(key).decrypt(token): the data, or ok = FALSE for InvalidToken
fernet_decrypt(key, token) ==
    LET raw == urlsafe_b64decode(token)
        n == Len(raw.bytes)
        body == SubSeq(raw.bytes, 1, n - 1)
    IN  IF ~raw.ok \/ n < 3 \/ raw.bytes[1] # 128
           \/ raw.bytes[n] # fernet_tag(key, body)
        THEN [ok |-> FALSE, data |-> <<>>]
        ELSE [ok |-> TRUE,
              data |-> [i \in 1..(n - 3) |-> (raw.bytes[i + 2] - key - raw.bytes[2]) % 256]]

\* SecurityService.encrypt_data(data) under the master key: the value of
\* 'encrypted_data' ('success' is True)
encrypt_data(data, iv) == urlsafe_b64encode(fernet_encrypt(master_key, iv, utf8_encode(data)))

\* SecurityService.decrypt_data(encrypted_data) under the master key
decrypt_data(encrypted_data) ==
    LET encrypted_bytes == urlsafe_b64decode(encrypted_data)
        plain == fernet_decrypt(master_key, encrypted_bytes.bytes)
        text == utf8_decode(plain.data)
    IN  IF encrypted_bytes.ok /\ plain.ok /\ text.ok
        THEN [success |-> TRUE, decrypted_data |-> text.str]
        ELSE [success |-> FALSE, decrypted_data |-> <<>>]

PlainChars == {62, 65, 233}           \* ">", "A", "e" with an acute accent
Secrets == Strings(PlainChars, MaxSecretLen)
StoredChars == {47, 61, 119}          \* "/", "=", "w"
StoredInputs == Strings(StoredChars, MaxStoredLen)

CipherCall(op, input, stored, output, success) ==
    [op |-> op, input |-> input, stored |-> stored, output |-> output, success |-> success]

CipherFrame ==
    UNCHANGED <<now, users, refresh_tokens, redis_rate, redis_blacklist, pc, req, rotated,
                overlap, response, login_history, issued, revoke_called, decoded,
                failed_attempts, lockout_result, streak, cleared, rl, rate_window,
                verify_result, attempt, ended, admin_result, hashed,
                rate_limit_storage, check_history,
                api_keys, key_history, sessions, session_history>>

\* store_api_key followed by get_api_key: the key is encoded, stored, read and decoded
ApiKeyRoundTrip(api_key) ==
    /\ cipher' = LET stored == encrypt_api_key(api_key)
                     output == decrypt_api_key(stored)
                 IN  CipherCall("api_key", api_key, stored, output, TRUE)
    /\ CipherFrame

\* get_api_key on a stored value of any origin
DecryptApiKey(stored) ==
    /\ cipher' = LET output == decrypt_api_key(stored)
                 IN  CipherCall("decrypt_api_key", <<>>, stored, output, output # <<>>)
    /\ CipherFrame

\* encrypt_data followed by decrypt_data of its 'encrypted_data'
DataRoundTrip(data, iv) ==
    /\ cipher' = LET stored == encrypt_data(data, iv)
                     output == decrypt_data(stored)
                 IN  CipherCall("data", data, stored, output.decrypted_data, output.success)
    /\ CipherFrame

CipherNext ==
    \/ \E api_key \in Secrets : ApiKeyRoundTrip(api_key)
    \/ \E stored \in StoredInputs : DecryptApiKey(stored)
    \/ \E data \in Secrets, iv \in Ivs : DataRoundTrip(data, iv)

SpecCipher == Init /\ [][CipherNext]_vars

\* C27: for every secret S, decrypt_data of the encrypted_data that encrypt_data(S)
\* returned succeeds with exactly S under the same key, and
\* decrypt_api_key(encrypt_api_key(S)) is S.
C27_RoundTrip ==
    cipher.op \in {"api_key", "data"} =>
        /\ cipher.output = cipher.input
        /\ cipher.success

\* a secret of full length with a two-byte character has gone through encrypt_data
\* and decrypt_data
C27_Witness ==
    /\ cipher.op = "data"
    /\ Len(cipher.input) = MaxSecretLen
    /\ \E i \in 1..Len(cipher.input) : cipher.input[i] > 127
    /\ cipher.stored # cipher.input
    /\ cipher.output = cipher.input

\* stored is a value encrypt_api_key returns for some key: "" or the canonical
\* base64 text of a non-empty valid UTF-8 string
ProducedByEncrypt(stored) ==
    \/ stored = <<>>
    \/ /\ b64decode(stored).ok
       /\ b64encode(b64decode(stored).bytes) = stored
       /\ utf8_decode(b64decode(stored).bytes).ok

\* C28: for every stored value that encrypt_api_key did not produce, decrypt_api_key
\* reports failure: it returns "" and no non-empty plaintext.
C28_ForeignInputFails ==
    (cipher.op = "decrypt_api_key" /\ ~ProducedByEncrypt(cipher.stored)) =>
        cipher.output = <<>>

(***************************************************************************)
(* SecurityService.hash_password / verify_password:                        *)
(* hashlib.pbkdf2_hmac('sha256', password, salt, 100000).  PBKDF2 keys     *)
(* HMAC-SHA256 with the password; HMAC replaces a key longer than its      *)
(* 64-byte block by the key's digest and fills a shorter key with zero     *)
(* bytes up to the block.  The pseudo-random function itself is taken as   *)
(* ideal: different (prepared key, salt) pairs give different hashes.      *)
(***************************************************************************)
MaxPasswordLen == 2           \* longest password

\* the key HMAC works with
hmac_key(key) ==
    IF Len(key) > 64
    THEN [digest |-> TRUE, bytes |-> key]
    ELSE [digest |-> FALSE, bytes |-> key \o [i \in 1..(64 - Len(key)) |-> 0]]

\* hashlib.pbkdf2_hmac('sha256', password, salt, 100000).hex()
pbkdf2_hmac(password, salt) == [key |-> hmac_key(password), salt |-> salt]

\* SecurityService.hash_password with the salt secrets.token_hex(32) returned
hash_password(password, salt) ==
    [success |-> TRUE, hash |-> pbkdf2_hmac(utf8_encode(password), salt), salt |-> salt]

\* SecurityService.verify_password(password, stored_hash, salt)
service_verify_password(password, stored_hash, salt) ==
    pbkdf2_hmac(utf8_encode(password), salt) = stored_hash

PasswordChars == {0, 97, 233}      \* NUL, "a", "e" with an acute accent
PasswordInputs == Strings(PasswordChars, MaxPasswordLen)
Salts == {"salt1", "salt2"}

HashFrame ==
    UNCHANGED <<now, users, refresh_tokens, redis_rate, redis_blacklist, pc, req, rotated,
                overlap, response, login_history, issued, revoke_called, decoded,
                failed_attempts, lockout_result, streak, cleared, rl, rate_window,
                verify_result, attempt, ended, admin_result, cipher,
                rate_limit_storage, check_history,
                api_keys, key_history, sessions, session_history>>

\* a password is hashed and hash and salt are stored
HashPassword(password, salt) ==
    /\ hashed' = LET h == hash_password(password, salt)
                 IN  [op |-> "hash_password", password |-> password, stored |-> h.hash,
                      salt |-> h.salt, candidate |-> <<>>, verified |-> FALSE]
    /\ HashFrame

\* a candidate is verified against the stored hash and salt
VerifyPassword(candidate) ==
    /\ hashed.op # None
    /\ hashed' = [hashed EXCEPT !.op = "verify_password", !.candidate = candidate,
                                !.verified = service_verify_password(candidate, hashed.stored,
                                                                     hashed.salt)]
    /\ HashFrame

HashNext ==
    \/ \E password \in PasswordInputs, salt \in Salts : HashPassword(password, salt)
    \/ \E candidate \in PasswordInputs : VerifyPassword(candidate)

SpecHash == Init /\ [][HashNext]_vars

\* C29: verifying P against the hash and salt produced by hashing P returns true,
\* and verifying any Q different from P against them returns false.
C29_VerifyIffSamePassword ==
    hashed.op = "verify_password" => (hashed.verified <=> hashed.candidate = hashed.password)

(***************************************************************************)
(* SecurityManager.check_rate_limit (utils/security.py): a log of the      *)
(* request times of the last window per identifier, and a block that       *)
(* starts when a request finds the log full.  check_history records, per   *)
(* identifier, the times of all calls that returned True and the time of   *)
(* the last call that found the limit reached while no cool-down was       *)
(* running.                                                                *)
(***************************************************************************)
MaxCheckTime == 120           \* clock horizon of the check_rate_limit model

limit == 2                    \* the argument limit of every call
window_minutes == 1           \* the argument window_minutes of every call
CheckIdentifiers == {"ip1", "ip2"}

\* timedelta(minutes=window_minutes), in seconds
window_seconds_of(minutes) == minutes * SecondsPerMinute

\* the log is full only when it holds more than limit requests
limit_reached_above(requests, max) == Len(requests) > max

\* line 154: len(user_data["requests"]) >= limit
limit_reached(requests, max) == Len(requests) >= max

\* rate_limit_storage[identifier], created empty on first use (lines 138-142)
user_data_of(identifier) ==
    IF identifier \in DOMAIN rate_limit_storage
    THEN rate_limit_storage[identifier]
    ELSE [requests |-> <<>>, blocked_until |-> NoTime]

\* rate_limit_storage after user_data has been written for identifier
stored_as(identifier, user_data) ==
    [k \in DOMAIN rate_limit_storage \cup {identifier} |->
        IF k = identifier THEN user_data ELSE rate_limit_storage[k]]

\* SecurityManager.check_rate_limit(identifier, limit, window_minutes): the value
\* returned and rate_limit_storage after the call
check_rate_limit(identifier, max, minutes) ==
    LET window_start == now - window_seconds_of(minutes)
        user_data == user_data_of(identifier)
        kept == SelectSeq(user_data.requests, LAMBDA req_time : req_time > window_start)
    IN  IF user_data.blocked_until # NoTime /\ now < user_data.blocked_until
        THEN [result |-> FALSE, storage |-> stored_as(identifier, user_data)]
        ELSE IF limit_reached(kept, max)
        THEN [result |-> FALSE,
              storage |-> stored_as(identifier,
                                    [requests |-> kept,
                                     blocked_until |-> now + window_seconds_of(minutes)])]
        ELSE [result |-> TRUE,
              storage |-> stored_as(identifier,
                                    [requests |-> Append(kept, now),
                                     blocked_until |-> user_data.blocked_until])]

\* the times of the calls for identifier that returned True so far
AllowedAt(identifier) ==
    IF identifier \in DOMAIN check_history.allowed
    THEN check_history.allowed[identifier] ELSE <<>>

\* the number of calls for identifier that returned True in the interval (t - w, t]
AllowedWithin(identifier, t, w) ==
    Cardinality({i \in 1..Len(AllowedAt(identifier)) :
                    t - w < AllowedAt(identifier)[i] /\ AllowedAt(identifier)[i] <= t})

\* a cool-down started by a call that found the limit reached is running
InCoolDown(identifier) ==
    /\ identifier \in DOMAIN check_history.found_full_at
    /\ now < check_history.found_full_at[identifier] + window_seconds_of(window_minutes)

\* the call finds the limit reached: limit calls returned True in the window that
\* ends now, and no cool-down is running
FindsLimitReached(identifier) ==
    /\ ~InCoolDown(identifier)
    /\ AllowedWithin(identifier, now, window_seconds_of(window_minutes)) >= limit

CheckRateLimit(identifier) ==
    LET call == check_rate_limit(identifier, limit, window_minutes)
    IN  /\ rate_limit_storage' = call.storage
        /\ check_history' =
               [allowed |->
                    [k \in DOMAIN check_history.allowed \cup {identifier} |->
                        IF k = identifier /\ call.result
                        THEN Append(AllowedAt(k), now) ELSE AllowedAt(k)],
                found_full_at |->
                    IF FindsLimitReached(identifier)
                    THEN [k \in DOMAIN check_history.found_full_at \cup {identifier} |->
                             IF k = identifier THEN now ELSE check_history.found_full_at[k]]
                    ELSE check_history.found_full_at,
                last |-> [identifier |-> identifier, result |-> call.result]]
        /\ UNCHANGED <<users, refresh_tokens, redis_rate, redis_blacklist, pc, req, rotated,
                       overlap, response, login_history, issued, revoke_called, decoded,
                       failed_attempts, lockout_result, streak, cleared, rl, rate_window,
                       verify_result, attempt, ended, admin_result, cipher, hashed, now,
                       api_keys, key_history, sessions, session_history>>

CheckTimeSteps == {30}

CheckTick(d) ==
    /\ Tick(d, MaxCheckTime)
    /\ UNCHANGED <<session_history, sessions, key_history, api_keys, users, refresh_tokens, pc, req, rotated, overlap, response, login_history,
                   issued, revoke_called, decoded, failed_attempts, lockout_result, streak,
                   cleared, rl, rate_window, verify_result, attempt, ended, admin_result,
                   cipher, hashed, rate_limit_storage, check_history>>

CheckNext ==
    \/ \E identifier \in CheckIdentifiers : CheckRateLimit(identifier)
    \/ \E d \in CheckTimeSteps : CheckTick(d)

SpecCheck == Init /\ [][CheckNext]_vars

\* the number of calls for identifier that returned True in the interval [t, t + w)
AllowedFrom(identifier, t, w) ==
    Cardinality({i \in 1..Len(AllowedAt(identifier)) :
                    t <= AllowedAt(identifier)[i] /\ AllowedAt(identifier)[i] < t + w})

\* the number of calls for identifier that returned True in the interval [t - w, t]
AllowedUpTo(identifier, t, w) ==
    Cardinality({i \in 1..Len(AllowedAt(identifier)) :
                    t - w <= AllowedAt(identifier)[i] /\ AllowedAt(identifier)[i] <= t})

\* in every interval of length window that leaves out one of its two ends, the calls
\* for one identifier that returned True are at most limit
AtMostLimitPerHalfOpenWindow ==
    \A identifier \in CheckIdentifiers : \A t \in 0..now :
        /\ AllowedWithin(identifier, t, window_seconds_of(window_minutes)) <= limit
        /\ AllowedFrom(identifier, t, window_seconds_of(window_minutes)) <= limit

\* the same for the intervals that contain both ends
AtMostLimitPerClosedWindow ==
    \A identifier \in CheckIdentifiers : \A t \in 0..now :
        AllowedUpTo(identifier, t, window_seconds_of(window_minutes)) <= limit

\* a call that finds the limit reached returns False and blocks the identifier until
\* window_minutes later, and a call made during that cool-down returns False and
\* changes nothing
CoolDownStep ==
    \A identifier \in CheckIdentifiers :
        CheckRateLimit(identifier) =>
            /\ FindsLimitReached(identifier) =>
                   /\ ~check_history'.last.result
                   /\ rate_limit_storage'[identifier].blocked_until
                          = now + window_seconds_of(window_minutes)
            /\ InCoolDown(identifier) =>
                   /\ ~check_history'.last.result
                   /\ rate_limit_storage' = rate_limit_storage

MaxKeys == 2                  \* keys generated
MaxUses == 2                  \* successful verifications counted per key
MaxKeyTime == 120             \* clock horizon of the api-key model

\* f"ocp_{secrets.token_urlsafe(32)}": a key no earlier call returned
fresh_api_key == Cardinality(DOMAIN api_keys) + 1

\* api_keys with info stored under api_key
with_key(api_key, info) ==
    [k \in DOMAIN api_keys \cup {api_key} |-> IF k = api_key THEN info ELSE api_keys[k]]

\* SecurityManager.generate_api_key(user_id, name): api_keys after the call
generate_api_key(user_id, name) ==
    with_key(fresh_api_key,
             [user_id |-> user_id, name |-> name, created_at |-> now, last_used |-> NoTime,
              is_active |-> TRUE, usage_count |-> 0])

\* the line 112 test never taken
key_inactive_never(key_info) == FALSE

\* line 112: not key_info["is_active"]
key_inactive(key_info) == ~key_info.is_active

\* SecurityManager.verify_api_key(api_key): whether the call returns None, the key
\* info it returns otherwise, and api_keys after the call
verify_api_key(api_key) ==
    IF api_key \notin DOMAIN api_keys
    THEN [none |-> TRUE, key_info |-> <<>>, api_keys |-> api_keys]
    ELSE IF key_inactive(api_keys[api_key])
    THEN [none |-> TRUE, key_info |-> <<>>, api_keys |-> api_keys]
    ELSE LET key_info == [api_keys[api_key] EXCEPT !.last_used = now,
                                                   !.usage_count = @ + 1]
         IN  [none |-> FALSE, key_info |-> key_info,
              api_keys |-> with_key(api_key, key_info)]

\* SecurityManager.revoke_api_key(api_key): the value returned and api_keys after the
\* call
revoke_api_key(api_key) ==
    IF api_key \in DOMAIN api_keys
    THEN [returned |-> TRUE,
          api_keys |-> with_key(api_key, [api_keys[api_key] EXCEPT !.is_active = FALSE])]
    ELSE [returned |-> FALSE, api_keys |-> api_keys]

KeyFrame ==
    UNCHANGED <<now, users, refresh_tokens, redis_rate, redis_blacklist, pc, req, rotated,
                overlap, response, login_history, issued, revoke_called, decoded,
                failed_attempts, lockout_result, streak, cleared, rl, rate_window,
                verify_result, attempt, ended, admin_result, cipher, hashed,
                rate_limit_storage, check_history, sessions, session_history>>

\* the successful verifications of api_key counted so far
VerifiedCount(api_key) ==
    IF api_key \in DOMAIN key_history.verified THEN key_history.verified[api_key] ELSE 0

KeyCall(op, api_key, result) == [op |-> op, api_key |-> api_key, result |-> result]

GenerateApiKey(user_id) ==
    /\ Cardinality(DOMAIN api_keys) < MaxKeys
    /\ api_keys' = generate_api_key(user_id, "Default")
    /\ key_history' = [key_history EXCEPT !.last = KeyCall("generate_api_key", fresh_api_key,
                                                           "key")]
    /\ KeyFrame

VerifyApiKey(api_key) ==
    LET call == verify_api_key(api_key)
    IN  /\ api_key \in DOMAIN api_keys => api_keys[api_key].usage_count < MaxUses
        /\ api_keys' = call.api_keys
        /\ key_history' =
               [key_history EXCEPT
                   !.verified = IF call.none THEN @
                                ELSE [k \in DOMAIN @ \cup {api_key} |->
                                         IF k = api_key THEN VerifiedCount(k) + 1 ELSE @[k]],
                   !.last = KeyCall("verify_api_key", api_key,
                                    IF call.none THEN None ELSE "key_info")]
        /\ KeyFrame

RevokeApiKey(api_key) ==
    LET call == revoke_api_key(api_key)
    IN  /\ api_keys' = call.api_keys
        /\ key_history' =
               [key_history EXCEPT
                   !.revoked = IF call.returned THEN @ \cup {api_key} ELSE @,
                   !.last = KeyCall("revoke_api_key", api_key,
                                    IF call.returned THEN "True" ELSE "False")]
        /\ KeyFrame

KeyTimeSteps == {60}

KeyTick(d) ==
    /\ Tick(d, MaxKeyTime)
    /\ UNCHANGED <<users, refresh_tokens, pc, req, rotated, overlap, response, login_history,
                   issued, revoke_called, decoded, failed_attempts, lockout_result, streak,
                   cleared, rl, rate_window, verify_result, attempt, ended, admin_result,
                   cipher, hashed, rate_limit_storage, check_history, api_keys, key_history,
                   sessions, session_history>>

\* the keys a caller may present: the generated ones and one that was never generated
PresentedKeys == 1..(MaxKeys + 1)

KeyNext ==
    \/ \E user_id \in {"u1"} : GenerateApiKey(user_id)
    \/ \E api_key \in PresentedKeys : VerifyApiKey(api_key)
    \/ \E api_key \in PresentedKeys : RevokeApiKey(api_key)
    \/ \E d \in KeyTimeSteps : KeyTick(d)

SpecApiKeys == Init /\ [][KeyNext]_vars

\* a revoked key stays inactive, and the stored usage_count of every key is the number
\* of verify_api_key calls that returned its key info
RevokedStaysInactive ==
    /\ \A k \in key_history.revoked : k \in DOMAIN api_keys /\ ~api_keys[k].is_active
    /\ \A k \in DOMAIN api_keys : api_keys[k].usage_count = VerifiedCount(k)

\* verify_api_key on a revoked key returns None and leaves api_keys as it is; a
\* verify_api_key that returns the key info adds exactly 1 to the key's usage_count;
\* no step changes the usage_count or last_used of a revoked key
KeyStep ==
    /\ \A k \in PresentedKeys :
           VerifyApiKey(k) =>
               /\ k \in key_history.revoked =>
                      /\ key_history'.last.result = None
                      /\ api_keys' = api_keys
               /\ key_history'.last.result # None =>
                      api_keys'[k].usage_count = api_keys[k].usage_count + 1
    /\ \A k \in key_history.revoked :
           /\ api_keys'[k].usage_count = api_keys[k].usage_count
           /\ api_keys'[k].last_used = api_keys[k].last_used
           /\ ~api_keys'[k].is_active

\* C39: once revoke_api_key(k) has returned True, every later verify_api_key(k)
\* returns None and leaves k's usage_count and last_used unchanged; usage_count grows
\* by exactly 1 per successful verify_api_key, and no operation reactivates a revoked
\* key.
C39_RevokedKeyStaysRevoked == [](RevokedStaysInactive) /\ [][KeyStep]_vars

\* a key that was used and then revoked has been presented again, later, and refused
C39_Witness ==
    /\ key_history.last.op = "verify_api_key"
    /\ key_history.last.result = None
    /\ key_history.last.api_key \in key_history.revoked
    /\ api_keys[key_history.last.api_key].usage_count >= 1
    /\ api_keys[key_history.last.api_key].last_used < now

(***************************************************************************)
(* SecurityService sessions (services/security.py): create_session,        *)
(* validate_session, invalidate_session, cleanup_expired_sessions on the   *)
(* dict sessions.  session_history records the number of sessions created, *)
(* the ids invalidated by invalidate_session or found expired by           *)
(* validate_session, and the last call.                                    *)
(***************************************************************************)
MaxSessions == 2              \* sessions created
MaxStoreTime == 172800        \* clock horizon of the session-store model (2 days)

session_timeout == 24 * 60 * SecondsPerMinute

\* secrets.token_urlsafe(32): an id no earlier call returned
fresh_session_id == session_history.created + 1

\* sessions with session_data stored under session_id
with_session(session_id, session_data) ==
    [k \in DOMAIN sessions \cup {session_id} |->
        IF k = session_id THEN session_data ELSE sessions[k]]

\* SecurityService.create_session(user_id): sessions after the call
create_session(user_id) ==
    with_session(fresh_session_id,
                 [user_id |-> user_id, created_at |-> now, last_activity |-> now,
                  is_active |-> TRUE])

\* the line 172 test never taken
session_inactive_never(session) == FALSE

\* line 172: not session.get('is_active', False)
session_inactive(session) == ~session.is_active

\* lines 180 and 234: the time since last_activity exceeds session_timeout
idle_too_long(session) == now - session.last_activity > session_timeout

\* SecurityService.validate_session(session_id): the valid and reason fields of the
\* dict returned and sessions after the call
validate_session(session_id) ==
    IF session_id \notin DOMAIN sessions
    THEN [valid |-> FALSE, reason |-> "Session not found", sessions |-> sessions]
    ELSE LET session == sessions[session_id]
         IN  IF session_inactive(session)
             THEN [valid |-> FALSE, reason |-> "Session is inactive", sessions |-> sessions]
             ELSE IF idle_too_long(session)
             THEN [valid |-> FALSE, reason |-> "Session expired",
                   sessions |-> with_session(session_id,
                                             [session EXCEPT !.is_active = FALSE])]
             ELSE [valid |-> TRUE, reason |-> None,
                   sessions |-> with_session(session_id,
                                             [session EXCEPT !.last_activity = now])]

\* SecurityService.invalidate_session(session_id): the success field of the dict
\* returned and sessions after the call
invalidate_session(session_id) ==
    IF session_id \in DOMAIN sessions
    THEN [success |-> TRUE,
          sessions |-> with_session(session_id,
                                    [sessions[session_id] EXCEPT !.is_active = FALSE])]
    ELSE [success |-> FALSE, sessions |-> sessions]

\* SecurityService.cleanup_expired_sessions(): sessions after the call
cleanup_expired_sessions ==
    [k \in {id \in DOMAIN sessions : ~idle_too_long(sessions[id])} |-> sessions[k]]

StoreFrame ==
    UNCHANGED <<now, users, refresh_tokens, redis_rate, redis_blacklist, pc, req, rotated,
                overlap, response, login_history, issued, revoke_called, decoded,
                failed_attempts, lockout_result, streak, cleared, rl, rate_window,
                verify_result, attempt, ended, admin_result, cipher, hashed,
                rate_limit_storage, check_history, api_keys, key_history>>

SessionCall(op, session_id, valid, reason) ==
    [op |-> op, session_id |-> session_id, valid |-> valid, reason |-> reason]

CreateSession(user_id) ==
    /\ session_history.created < MaxSessions
    /\ sessions' = create_session(user_id)
    /\ session_history' = [session_history EXCEPT
                              !.created = @ + 1,
                              !.last = SessionCall("create_session", fresh_session_id,
                                                   FALSE, None)]
    /\ StoreFrame

ValidateSession(session_id) ==
    LET call == validate_session(session_id)
    IN  /\ sessions' = call.sessions
        /\ session_history' = [session_history EXCEPT
                                  !.ended = IF call.reason = "Session expired"
                                            THEN @ \cup {session_id} ELSE @,
                                  !.last = SessionCall("validate_session", session_id,
                                                       call.valid, call.reason)]
        /\ StoreFrame

InvalidateSession(session_id) ==
    LET call == invalidate_session(session_id)
    IN  /\ sessions' = call.sessions
        /\ session_history' = [session_history EXCEPT
                                  !.ended = IF call.success THEN @ \cup {session_id} ELSE @,
                                  !.last = SessionCall("invalidate_session", session_id,
                                                       FALSE, None)]
        /\ StoreFrame

CleanupExpiredSessions ==
    /\ sessions' = cleanup_expired_sessions
    /\ session_history' = [session_history EXCEPT
                              !.last = SessionCall("cleanup_expired_sessions", 0, FALSE, None)]
    /\ StoreFrame

StoreTimeSteps == {session_timeout \div 2, session_timeout}

StoreTick(d) ==
    /\ Tick(d, MaxStoreTime)
    /\ UNCHANGED <<users, refresh_tokens, pc, req, rotated, overlap, response, login_history,
                   issued, revoke_called, decoded, failed_attempts, lockout_result, streak,
                   cleared, rl, rate_window, verify_result, attempt, ended, admin_result,
                   cipher, hashed, rate_limit_storage, check_history, api_keys, key_history,
                   sessions, session_history>>

\* the ids a caller may present: the ones created and one that was never created
PresentedSessions == 1..(MaxSessions + 1)

StoreNext ==
    \/ \E user_id \in {"u1"} : CreateSession(user_id)
    \/ \E session_id \in PresentedSessions : ValidateSession(session_id)
    \/ \E session_id \in PresentedSessions : InvalidateSession(session_id)
    \/ CleanupExpiredSessions
    \/ \E d \in StoreTimeSteps : StoreTick(d)

SpecSessionStore == Init /\ [][StoreNext]_vars

\* a session that was invalidated or found expired is gone or inactive
EndedStaysEnded ==
    \A id \in session_history.ended : id \in DOMAIN sessions => ~sessions[id].is_active

\* validate_session on an ended session returns valid = False; last_activity of a
\* stored session changes only in a validate_session of that session that returns
\* valid = True, and then to a later time; an inactive session stays inactive and a
\* deleted ended session is not stored again
StoreStep ==
    /\ \A id \in PresentedSessions :
           (ValidateSession(id) /\ id \in session_history.ended) =>
               ~session_history'.last.valid
    /\ \A id \in DOMAIN sessions \cap DOMAIN sessions' :
           /\ sessions'[id].last_activity # sessions[id].last_activity =>
                  /\ ValidateSession(id)
                  /\ session_history'.last.valid
                  /\ sessions'[id].last_activity > sessions[id].last_activity
           /\ ~sessions[id].is_active => ~sessions'[id].is_active
    /\ \A id \in session_history.ended : id \notin DOMAIN sessions => id \notin DOMAIN sessions'

\* C40: once a session has been invalidated by invalidate_session, or found idle for
\* longer than session_timeout by validate_session, every later validate_session for
\* that session id returns valid = False; only a successful validate_session advances
\* last_activity, and no operation sets is_active back to true.
C40_EndedSessionStaysInvalid == [](EndedStaysEnded) /\ [][StoreStep]_vars

\* a session that had been validated successfully and was ended afterwards has been
\* presented again and refused as inactive
C40_Witness ==
    /\ session_history.last.op = "validate_session"
    /\ session_history.last.session_id \in session_history.ended
    /\ ~session_history.last.valid
    /\ session_history.last.reason = "Session is inactive"
    /\ sessions[session_history.last.session_id].last_activity
           > sessions[session_history.last.session_id].created_at

(***************************************************************************)
(* Lockout tracking: claims C11 - C12, checked under SpecLockout           *)
(***************************************************************************)
\* C11: clear_failed_attempts(x) leaves no record for x (neither count nor
\* locked_until), whether x had a record, was locked or had none, and leaves the
\* record of every other identifier as it was.
C11_ClearStep ==
    \A x \in Identifiers :
        ClearFailedAttempts(x) =>
            /\ x \notin DOMAIN failed_attempts'
            /\ DOMAIN failed_attempts' = DOMAIN failed_attempts \ {x}
            /\ \A y \in DOMAIN failed_attempts \ {x} : failed_attempts'[y] = failed_attempts[y]

C11_ClearRemovesRecord == [][C11_ClearStep]_vars

\* a locked identifier has been cleared while the other one keeps its record
C11_Witness ==
    /\ cleared.identifier \in Identifiers
    /\ cleared.was_locked
    /\ cleared.count >= max_failed_attempts
    /\ cleared.identifier \notin DOMAIN failed_attempts
    /\ \E y \in Identifiers \ {cleared.identifier} : y \in DOMAIN failed_attempts

\* the failure count of x; an identifier without a record has count 0
Count(x) == IF x \in DOMAIN failed_attempts THEN failed_attempts[x].count ELSE 0
CountAfter(x) == IF x \in DOMAIN failed_attempts' THEN failed_attempts'[x].count ELSE 0

\* C12: a step lowers the failure count of x only to 0, and only when it is
\* clear_failed_attempts(x) or an is_locked_out(x) call made when x's locked_until is
\* set and has been reached.
C12_CountStep ==
    \A x \in Identifiers :
        CountAfter(x) < Count(x) =>
            /\ CountAfter(x) = 0
            /\ \/ ClearFailedAttempts(x)
               \/ \E t2 \in LaterReads :
                      /\ IsLockedOut(x, t2)
                      /\ LockedUntil(x) # NoTime
                      /\ now >= LockedUntil(x)

C12_CountOnlyResetByClearOrExpiry == [][C12_CountStep]_vars

\* an expired lockout has been reset by is_locked_out while the other identifier
\* keeps a count below the threshold through checks and clock steps
C12_Witness ==
    /\ lockout_result.op = "is_locked_out"
    /\ lockout_result.attempts >= max_failed_attempts
    /\ Count(lockout_result.identifier) = 0
    /\ \E y \in Identifiers \ {lockout_result.identifier} :
           Count(y) > 0 /\ Count(y) < max_failed_attempts

(***************************************************************************)
(* Lockout tracking: claims C36 - C37, checked under SpecLockout           *)
(***************************************************************************)
\* C36: every lockout record in every reachable state has count >= 1, has
\* locked_until set if and only if count >= max_failed_attempts, and when set
\* locked_until equals last_attempt + lockout_duration.
C36_RecordShape ==
    \A x \in DOMAIN failed_attempts :
        /\ failed_attempts[x].count >= 1
        /\ (failed_attempts[x].locked_until # NoTime)
               <=> (failed_attempts[x].count >= max_failed_attempts)
        /\ failed_attempts[x].locked_until # NoTime =>
               failed_attempts[x].locked_until
                   = failed_attempts[x].last_attempt + lockout_duration

\* a failure recorded while the identifier was locked has moved locked_until forward
C36_Witness ==
    \E x \in DOMAIN failed_attempts :
        /\ failed_attempts[x].count > max_failed_attempts
        /\ failed_attempts[x].last_attempt > failed_attempts[x].first_attempt
        /\ failed_attempts[x].locked_until = now + lockout_duration
        /\ lockout_result.op = "track_failed_attempt"

\* C37: the attempts value returned by every is_locked_out(x) call equals x's stored
\* failure count immediately after the call, and is 0 whenever x has no record after
\* the call.
C37_AttemptsIsStoredCount ==
    lockout_result.op = "is_locked_out" =>
        lockout_result.attempts
            = IF lockout_result.identifier \in DOMAIN failed_attempts
              THEN failed_attempts[lockout_result.identifier].count
              ELSE 0

====
